---------------------------- MODULE Spec2Model ----------------------------
(***************************************************************************)
(* A model of smtpkit's streaming SMTP command parser (src/parser.rs), the *)
(* single-command parser behind it (src/parse/) and the byte helpers they  *)
(* use.  A byte is a number 0..255; Bytes / BytesMut are sequences of      *)
(* bytes.  Positions are 0-based like the Rust code's; Option<T> is a      *)
(* sequence of length 0 (None) or 1 (Some).                                *)
(***************************************************************************)
EXTENDS Integers, Sequences, FiniteSets, TLC

None == << >>
Some(x) == << x >>
IsSome(o) == Len(o) = 1
IsNone(o) == Len(o) = 0
Unwrap(o) == o[1]

MinOf(S) == CHOOSE x \in S : \A y \in S : x <= y

\* let x = e; ... : the value e is computed once and named x in F
Bind(x, F(_)) == F(x)

\* ---------------------------------------------------------------------------
\* Byte literals of the source
\* ---------------------------------------------------------------------------
b_HELO == <<72, 69, 76, 79>>
b_EHLO == <<69, 72, 76, 79>>
b_MAIL == <<77, 65, 73, 76>>
b_RCPT == <<82, 67, 80, 84>>
b_DATA == <<68, 65, 84, 65>>
b_RSET == <<82, 83, 69, 84>>
b_VRFY == <<86, 82, 70, 89>>
b_EXPN == <<69, 88, 80, 78>>
b_HELP == <<72, 69, 76, 80>>
b_NOOP == <<78, 79, 79, 80>>
b_QUIT == <<81, 85, 73, 84>>
b_BDAT == <<66, 68, 65, 84>>
b_LAST == <<76, 65, 83, 84>>
\* b"\r\n", the needle of crlf_finder
\* Variant: a bare LF ends a line
CRLF_lf == <<10>>

CRLF == <<13, 10>>
\* b"\r\n.\r\n", the needle of data_finder
CRLFDotCRLF == <<13, 10, 46, 13, 10>>
\* b' ', the delimiter Command::try_from gives Tokens::new
SP == 32

\* max::COMMAND_LINE and max::DATA_LINE
max_COMMAND_LINE == 510
max_DATA_LINE == 998

\* ---------------------------------------------------------------------------
\* bytes / bstr primitives
\* ---------------------------------------------------------------------------
\* Bytes::split_to(n): the first n bytes (the receiver keeps DropFront).
TakeFront(b, n) == SubSeq(b, 1, n)
DropFront(b, n) == SubSeq(b, n + 1, Len(b))

\* Buf::advance(cnt) panics when cnt exceeds the remaining length.
advance_panics(b, cnt) == cnt > Len(b)

\* Finder::find / ByteSlice::find: 0-based index of the first occurrence.
Finder_find(needle, hay) ==
    LET n == Len(needle)
        S == {i \in 0..(Len(hay) - n) : \A j \in 1..n : hay[i + j] = needle[j]}
    IN  IF S = {} THEN None ELSE Some(MinOf(S))

\* ByteSlice::find_byte
find_byte(b, d) ==
    LET S == {i \in 0..(Len(b) - 1) : b[i + 1] = d}
    IN  IF S = {} THEN None ELSE Some(MinOf(S))

to_ascii_lowercase(c) == IF c >= 65 /\ c <= 90 THEN c + 32 ELSE c

eq_ignore_ascii_case(a, b) ==
    /\ Len(a) = Len(b)
    /\ \A i \in 1..Len(a) : to_ascii_lowercase(a[i]) = to_ascii_lowercase(b[i])

is_ascii_digit(c) == c >= 48 /\ c <= 57
is_ascii_alphanumeric(c) ==
    \/ is_ascii_digit(c)
    \/ (c >= 65 /\ c <= 90)
    \/ (c >= 97 /\ c <= 122)

\* ---------------------------------------------------------------------------
\* Tokens (src/parse/iterators.rs): the iterator state is the remaining bytes.
\* ---------------------------------------------------------------------------
Tokens_next(bytes, delim) ==
    IF Len(bytes) = 0
    THEN [item |-> None, rest |-> bytes]
    ELSE LET f     == find_byte(bytes, delim)
             pos   == IF IsSome(f) THEN Unwrap(f) ELSE Len(bytes)
             token == TakeFront(bytes, pos)
             after == DropFront(bytes, pos)
         IN  [item |-> Some(token),
              rest |-> IF Len(after) # 0 THEN DropFront(after, 1) ELSE after]


\* ---------------------------------------------------------------------------
\* Result<T, Error>; a panic (todo!(), a failed assertion of the bytes crate)
\* is a third outcome that unwinds out of Parser::parse.
\* ---------------------------------------------------------------------------
Ok(v) == [kind |-> "Ok", val |-> v]
Err(e) == [kind |-> "Err", err |-> e]
Panic == [kind |-> "Panic"]
IsOk(r) == r.kind = "Ok"

\* pub enum Error (src/parse/mod.rs)
Error == {"InvalidCommand", "InvalidParameter", "MissingParameter",
          "UnexpectedParameter", "InvalidSyntax", "Empty", "TooLong", "Eoi",
          "CommandNotImplemented", "ParameterNotImplemented"}

\* ---------------------------------------------------------------------------
\* Grammar validators (src/parse/helpers.rs, src/lib.rs)
\* ---------------------------------------------------------------------------
\* slice::split(|&x| x == d): the pieces between the delimiters, empty ones kept.
RECURSIVE slice_split(_, _)
slice_split(b, d) ==
    LET f == find_byte(b, d)
    IN  IF IsNone(f) THEN << b >>
        ELSE << TakeFront(b, Unwrap(f)) >> \o slice_split(DropFront(b, Unwrap(f) + 1), d)

is_atext_byte(c) ==
    \/ is_ascii_alphanumeric(c)
    \/ c = 33
    \/ (c >= 35 /\ c <= 39)
    \/ (c >= 42 /\ c <= 43)
    \/ c \in {45, 47, 61, 63, 94, 95, 96}
    \/ (c >= 123 /\ c <= 125)

is_atext(input) ==
    /\ Len(input) # 0
    /\ \A i \in 1..Len(input) : is_atext_byte(input[i])

is_dot_string(input) ==
    LET f == find_byte(input, 46)
        a == IF IsSome(f) THEN TakeFront(input, Unwrap(f)) ELSE input
        b == IF IsSome(f) THEN DropFront(input, Unwrap(f) + 1) ELSE << >>
    IN  IF ~is_atext(a) THEN FALSE
        ELSE IF Len(b) = 0 THEN TRUE
        ELSE LET parts == slice_split(b, 46)
             IN  \A i \in 1..Len(parts) : is_atext(parts[i])

is_qtext(c) ==
    \/ (c >= 32 /\ c <= 33)
    \/ (c >= 35 /\ c <= 91)
    \/ (c >= 93 /\ c <= 126)

is_quoted_pair(c) == c >= 32 /\ c <= 126

\* input.strip_prefix(b"\"")?.strip_suffix(b"\"")
strip_quotes(input) ==
    IF Len(input) >= 1 /\ input[1] = 34
    THEN LET r == DropFront(input, 1)
         IN  IF Len(r) >= 1 /\ r[Len(r)] = 34
             THEN Some(TakeFront(r, Len(r) - 1))
             ELSE None
    ELSE None

\* The while loop of is_quoted_string, i being the 0-based index.
RECURSIVE quoted_scan(_, _)
quoted_scan(stripped, i) ==
    IF i >= Len(stripped) THEN TRUE
    ELSE IF stripped[i + 1] = 92
         THEN IF i + 1 < Len(stripped) /\ is_quoted_pair(stripped[i + 2])
              THEN quoted_scan(stripped, i + 2)
              ELSE FALSE
         ELSE IF ~is_qtext(stripped[i + 1]) THEN FALSE
         ELSE quoted_scan(stripped, i + 1)

is_quoted_string(input) ==
    LET s == strip_quotes(input)
    IN  IF IsNone(s) THEN FALSE ELSE quoted_scan(Unwrap(s), 0)

is_subdomain(input) ==
    IF Len(input) = 0 THEN FALSE
    ELSE IF input[1] = 45 \/ input[Len(input)] = 45 THEN FALSE
    ELSE \A i \in 1..Len(input) : is_ascii_alphanumeric(input[i]) \/ input[i] = 45

is_domain(input) ==
    LET f == find_byte(input, 46)
        a == IF IsSome(f) THEN TakeFront(input, Unwrap(f)) ELSE input
        b == IF IsSome(f) THEN DropFront(input, Unwrap(f) + 1) ELSE << >>
    IN  IF ~is_subdomain(a) THEN FALSE
        ELSE IF Len(b) = 0 THEN TRUE
        ELSE LET parts == slice_split(b, 46)
             IN  \A i \in 1..Len(parts) : is_subdomain(parts[i])

is_local_part(input) == is_dot_string(input) \/ is_quoted_string(input)

is_xchar(c) ==
    \/ (c >= 33 /\ c <= 42)
    \/ (c >= 44 /\ c <= 60)
    \/ (c >= 62 /\ c <= 126)

is_ascii_hexdigit(c) ==
    \/ is_ascii_digit(c)
    \/ (c >= 65 /\ c <= 70)
    \/ (c >= 97 /\ c <= 102)

\* max::LOCAL_PART, max::DOMAIN, max::EMAIL
max_LOCAL_PART == 64
max_DOMAIN == 255
max_EMAIL == 254

\* ---------------------------------------------------------------------------
\* Helpers for Bytes (src/lib.rs)
\* ---------------------------------------------------------------------------
split_once(b, delim) ==
    LET f == find_byte(b, delim)
    IN  IF IsNone(f) THEN None
        ELSE Some(<< TakeFront(b, Unwrap(f)), DropFront(b, Unwrap(f) + 1) >>)

strip_prefix_ci(b, prefix) ==
    IF Len(b) < Len(prefix) THEN None
    ELSE IF eq_ignore_ascii_case(TakeFront(b, Len(prefix)), prefix)
         THEN Some(DropFront(b, Len(prefix)))
         ELSE None

\* starts_with(b"<") && ends_with(b">"): no single byte passes both tests, so
\* the slice 1..len-1 is always in range.
strip_angled(b) ==
    IF Len(b) >= 1 /\ b[1] = 60 /\ b[Len(b)] = 62
    THEN Some(SubSeq(b, 2, Len(b) - 1))
    ELSE None

strip_brackets(b) ==
    IF Len(b) >= 1 /\ b[1] = 91 /\ b[Len(b)] = 93
    THEN Some(SubSeq(b, 2, Len(b) - 1))
    ELSE None

\* ---------------------------------------------------------------------------
\* Decimal numbers.  usize is 64 bits wide: overflow is decided on the digits,
\* since the model checker's integers are narrower than usize.
\* ---------------------------------------------------------------------------
\* The decimal digits of usize::MAX = 18446744073709551615
usize_MAX_digits ==
    <<49, 56, 52, 52, 54, 55, 52, 52, 48, 55, 51, 55, 48, 57, 53, 53, 49, 54, 49, 53>>

RECURSIVE StripZeros(_)
StripZeros(d) ==
    IF Len(d) > 0 /\ d[1] = 48 THEN StripZeros(DropFront(d, 1)) ELSE d

DigitsGreater(a, b) ==
    \/ Len(a) > Len(b)
    \/ /\ Len(a) = Len(b)
       /\ \E i \in 1..Len(a) : a[i] > b[i] /\ \A j \in 1..(i - 1) : a[j] = b[j]

ExceedsUsize(digits) == DigitsGreater(StripZeros(digits), usize_MAX_digits)

RECURSIVE DecValue(_)
DecValue(d) ==
    IF Len(d) = 0 THEN 0
    ELSE DecValue(TakeFront(d, Len(d) - 1)) * 10 + (d[Len(d)] - 48)

\* btoi::btou_radix::<usize>(token, 10): the bytes are folded left to right;
\* a byte that is no digit ends the fold with InvalidDigit, a product or sum
\* above usize::MAX ends it with PosOverflow, whichever comes first.
btou_radix(token) ==
    IF Len(token) = 0 THEN Err("Empty")
    ELSE LET bad      == {i \in 1..Len(token) : ~is_ascii_digit(token[i])}
             firstBad == IF bad = {} THEN Len(token) + 1 ELSE MinOf(bad)
             ovf      == {k \in 1..(firstBad - 1) : ExceedsUsize(TakeFront(token, k))}
         IN  IF ovf # {} THEN Err("PosOverflow")
             ELSE IF firstBad <= Len(token) THEN Err("InvalidDigit")
             ELSE Ok(DecValue(token))

\* usize::from_ascii: an optional leading '+', then one or more digits whose
\* value fits usize.
usize_from_ascii(n) ==
    LET digits == IF Len(n) > 1 /\ n[1] = 43 THEN DropFront(n, 1) ELSE n
    IN  IF /\ Len(digits) > 0
           /\ \A i \in 1..Len(digits) : is_ascii_digit(digits[i])
           /\ ~ExceedsUsize(digits)
        THEN Ok(DecValue(digits))
        ELSE Err("ParseIntError")

\* ---------------------------------------------------------------------------
\* core::net address parsers, as Host::try_from calls them
\* ---------------------------------------------------------------------------
\* The length of the longest run of bytes satisfying the digit test at 0-based pos.
RECURSIVE HexRun(_, _)
HexRun(s, pos) ==
    IF pos < Len(s) /\ is_ascii_hexdigit(s[pos + 1]) THEN 1 + HexRun(s, pos + 1) ELSE 0

RECURSIVE DecRun(_, _)
DecRun(s, pos) ==
    IF pos < Len(s) /\ is_ascii_digit(s[pos + 1]) THEN 1 + DecRun(s, pos + 1) ELSE 0

HexDigitValue(c) ==
    IF is_ascii_digit(c) THEN c - 48
    ELSE IF c >= 97 THEN c - 87
    ELSE c - 55

RECURSIVE HexValue(_)
HexValue(d) ==
    IF Len(d) = 0 THEN 0
    ELSE HexValue(TakeFront(d, Len(d) - 1)) * 16 + HexDigitValue(d[Len(d)])

\* Parser::read_number(10, Some(3), false) into a u8
read_octet(s, pos) ==
    LET n == DecRun(s, pos)
        d == SubSeq(s, pos + 1, pos + n)
    IN  IF n = 0 \/ n > 3 THEN None
        ELSE IF d[1] = 48 /\ n > 1 THEN None
        ELSE IF DecValue(d) > 255 THEN None
        ELSE Some([val |-> DecValue(d), pos |-> pos + n])

\* Parser::read_ipv4_addr: four octets separated by '.'
RECURSIVE read_ipv4_groups(_, _, _, _)
read_ipv4_groups(s, pos, i, acc) ==
    IF i = 4 THEN Some([val |-> acc, pos |-> pos])
    ELSE LET sepOK == i = 0 \/ (pos < Len(s) /\ s[pos + 1] = 46)
             p1    == IF i = 0 THEN pos ELSE pos + 1
             o     == IF sepOK THEN read_octet(s, p1) ELSE None
         IN  IF IsNone(o) THEN None
             ELSE read_ipv4_groups(s, Unwrap(o).pos, i + 1, Append(acc, Unwrap(o).val))

read_ipv4_addr(s, pos) == read_ipv4_groups(s, pos, 0, << >>)

Ipv4Addr_parse_ascii(b) ==
    LET r == read_ipv4_addr(b, 0)
    IN  IF IsSome(r) /\ Unwrap(r).pos = Len(b) THEN Some(Unwrap(r).val) ELSE None

\* Parser::read_number(16, Some(4), true) into a u16
read_hextet(s, pos) ==
    LET n == HexRun(s, pos)
    IN  IF n = 0 \/ n > 4 THEN None
        ELSE Some([val |-> HexValue(SubSeq(s, pos + 1, pos + n)), pos |-> pos + n])

\* read_groups of Parser::read_ipv6_addr
RECURSIVE read_groups(_, _, _, _, _)
read_groups(s, pos, i, limit, acc) ==
    IF i >= limit THEN [n |-> i, ipv4 |-> FALSE, pos |-> pos, groups |-> acc]
    ELSE LET sepOK == i = 0 \/ (pos < Len(s) /\ s[pos + 1] = 58)
             p1    == IF i = 0 THEN pos ELSE pos + 1
             v4    == IF i < limit - 1 /\ sepOK THEN read_ipv4_addr(s, p1) ELSE None
             g     == IF sepOK THEN read_hextet(s, p1) ELSE None
         IN  IF IsSome(v4)
             THEN LET o == Unwrap(v4).val
                  IN  [n |-> i + 2, ipv4 |-> TRUE, pos |-> Unwrap(v4).pos,
                       groups |-> acc \o << o[1] * 256 + o[2], o[3] * 256 + o[4] >>]
             ELSE IF IsSome(g)
                  THEN read_groups(s, Unwrap(g).pos, i + 1, limit, Append(acc, Unwrap(g).val))
                  ELSE [n |-> i, ipv4 |-> FALSE, pos |-> pos, groups |-> acc]

Ipv6Addr_parse_ascii(b) ==
    LET head == read_groups(b, 0, 0, 8, << >>)
    IN  IF head.n = 8
        THEN IF head.pos = Len(b) THEN Some(head.groups) ELSE None
        ELSE IF head.ipv4 THEN None
        ELSE IF ~(head.pos + 2 <= Len(b) /\ b[head.pos + 1] = 58 /\ b[head.pos + 2] = 58)
             THEN None
        ELSE LET limit == 8 - (head.n + 1)
                 tail  == read_groups(b, head.pos + 2, 0, limit, << >>)
             IN  IF tail.pos = Len(b)
                 THEN Some(head.groups
                           \o [k \in 1..(8 - head.n - tail.n) |-> 0]
                           \o tail.groups)
                 ELSE None

\* More byte literals of the source
b_FROM == <<70, 82, 79, 77, 58>>
b_TO == <<84, 79, 58>>
b_NullPath == <<60, 62>>
b_IPv6 == <<73, 80, 118, 54>>
b_SIZE == <<83, 73, 90, 69>>
b_RET == <<82, 69, 84>>
b_ENVID == <<69, 78, 86, 73, 68>>
b_AUTH == <<65, 85, 84, 72>>
b_BODY == <<66, 79, 68, 89>>
b_FULL == <<70, 85, 76, 76>>
b_HDRS == <<72, 68, 82, 83>>
b_7BIT == <<55, 66, 73, 84>>
b_8BITMIME == <<56, 66, 73, 84, 77, 73, 77, 69>>
b_BINARYMIME == <<66, 73, 78, 65, 82, 89, 77, 73, 77, 69>>
b_NOTIFY == <<78, 79, 84, 73, 70, 89>>
b_ORCPT == <<79, 82, 67, 80, 84>>
b_NEVER == <<78, 69, 86, 69, 82>>
b_DELAY == <<68, 69, 76, 65, 89>>
b_FAILURE == <<70, 65, 73, 76, 85, 82, 69>>
b_SUCCESS == <<83, 85, 67, 67, 69, 83, 83>>

\* ---------------------------------------------------------------------------
\* Validated newtypes (src/parse/parse_impl.rs)
\* ---------------------------------------------------------------------------
\* ByteSlice::rsplit_once_str(b"@"): split at the last '@'
rsplit_once_at(b) ==
    LET S == {i \in 1..Len(b) : b[i] = 64}
    IN  IF S = {} THEN None
        ELSE LET i == CHOOSE x \in S : \A y \in S : y <= x
             IN  Some(<< SubSeq(b, 1, i - 1), SubSeq(b, i + 1, Len(b)) >>)

Email_try_from(input) ==
    LET sp == rsplit_once_at(input)
    IN  IF IsNone(sp) THEN Err("InvalidSyntax")
        ELSE LET local == Unwrap(sp)[1]
                 host  == Unwrap(sp)[2]
             IN  IF /\ Len(local) <= max_LOCAL_PART
                    /\ is_local_part(local)
                    /\ Len(host) <= max_DOMAIN
                    /\ is_domain(host)
                    /\ Len(input) <= max_EMAIL
                 THEN Ok([email |-> input])
                 ELSE Err("InvalidSyntax")

Domain_try_from(input) ==
    LET sp == split_once(input, 46)
        a  == IF IsSome(sp) THEN Unwrap(sp)[1] ELSE input
        b  == IF IsSome(sp) THEN Unwrap(sp)[2] ELSE << >>
    IN  IF ~is_subdomain(a) THEN Err("InvalidSyntax")
        ELSE IF Len(b) = 0 THEN Ok([domain |-> a])
        ELSE LET parts == slice_split(b, 46)
             IN  IF \A i \in 1..Len(parts) : is_subdomain(parts[i])
                 THEN Ok([domain |-> input])
                 ELSE Err("InvalidSyntax")

\* Variant: a '+' counts only if a byte follows its two hex digits
RECURSIVE xtext_scan_strict(_, _)
xtext_scan_strict(input, i) ==
    IF i >= Len(input) THEN TRUE
    ELSE IF i + 3 < Len(input) /\ input[i + 1] = 43
         THEN IF ~(is_ascii_hexdigit(input[i + 2]) /\ is_ascii_hexdigit(input[i + 3]))
              THEN FALSE
              ELSE xtext_scan_strict(input, i + 3)
         ELSE IF is_xchar(input[i + 1]) THEN xtext_scan_strict(input, i + 1)
         ELSE FALSE

\* The while loop of XText::try_from, i being the 0-based index.
RECURSIVE xtext_scan(_, _)
xtext_scan(input, i) ==
    IF i >= Len(input) THEN TRUE
    ELSE IF i + 2 < Len(input) /\ input[i + 1] = 43
         THEN IF ~(is_ascii_hexdigit(input[i + 2]) /\ is_ascii_hexdigit(input[i + 3]))
              THEN FALSE
              ELSE xtext_scan(input, i + 3)
         ELSE IF is_xchar(input[i + 1]) THEN xtext_scan(input, i + 1)
         ELSE FALSE

XText_try_from(input) ==
    IF xtext_scan(input, 0) THEN Ok([xtext |-> input]) ELSE Err("InvalidSyntax")

Host_try_from(input) ==
    LET br == strip_brackets(input)
    IN  IF IsSome(br)
        THEN Bind(Ipv4Addr_parse_ascii(Unwrap(br)), LAMBDA v4 :
             IF IsSome(v4) THEN Ok([tag |-> "Ip", ip |-> [v |-> 4, addr |-> Unwrap(v4)]])
             ELSE Bind(split_once(Unwrap(br), 58), LAMBDA sp :
                  IF IsNone(sp) THEN Err("InvalidSyntax")
                  ELSE IF Unwrap(sp)[1] = b_IPv6
                       THEN Bind(Ipv6Addr_parse_ascii(Unwrap(sp)[2]), LAMBDA v6 :
                            IF IsSome(v6)
                            THEN Ok([tag |-> "Ip", ip |-> [v |-> 6, addr |-> Unwrap(v6)]])
                            ELSE Err("InvalidSyntax"))
                  ELSE IF Len(Unwrap(sp)[1]) = 0 THEN Err("InvalidSyntax")
                  ELSE Ok([tag |-> "Address", address |-> input])))
        ELSE Bind(Domain_try_from(input), LAMBDA d :
             IF IsOk(d) THEN Ok([tag |-> "Domain", domain |-> d.val]) ELSE d)

\* ---------------------------------------------------------------------------
\* MAIL parameters (src/parse/mail.rs)
\* ---------------------------------------------------------------------------
\* The (key, value) split at the first '=' shared by both Parameter::try_from
KeyValue(input) ==
    LET f == find_byte(input, 61)
    IN  IF IsSome(f)
        THEN [key |-> TakeFront(input, Unwrap(f)), value |-> Some(DropFront(input, Unwrap(f) + 1))]
        ELSE [key |-> input, value |-> None]

Ret_try_from(input) ==
    IF eq_ignore_ascii_case(input, b_FULL) THEN Ok("Full")
    ELSE IF eq_ignore_ascii_case(input, b_HDRS) THEN Ok("Headers")
    ELSE Err("InvalidSyntax")

EnvId_try_from(input) == XText_try_from(input)

Auth_try_from(input) ==
    IF input = b_NullPath THEN Ok([tag |-> "Anonymous"])
    ELSE LET x == XText_try_from(input)
         IN  IF IsOk(x) THEN Ok([tag |-> "Identity", xtext |-> x.val]) ELSE x

Body_try_from(input) ==
    IF eq_ignore_ascii_case(input, b_7BIT) THEN Ok("SevenBit")
    ELSE IF eq_ignore_ascii_case(input, b_8BITMIME) THEN Ok("EightBitMime")
    ELSE IF eq_ignore_ascii_case(input, b_BINARYMIME) THEN Ok("BinaryMime")
    ELSE Err("InvalidSyntax")

WithName(name, r) == IF IsOk(r) THEN Ok([name |-> name, val |-> r.val]) ELSE r

\* match (key, value) { ... } of mail::Parameter::try_from
mail_Parameter_match(key, value) ==
    IF IsNone(value) THEN Err("InvalidParameter")
    ELSE IF eq_ignore_ascii_case(key, b_SIZE)
         THEN Bind(usize_from_ascii(Unwrap(value)), LAMBDA n :
              IF IsOk(n) THEN Ok([name |-> "Size", val |-> n.val]) ELSE Err("InvalidSyntax"))
    ELSE IF eq_ignore_ascii_case(key, b_RET)
         THEN Bind(Ret_try_from(Unwrap(value)), LAMBDA r : WithName("Ret", r))
    ELSE IF eq_ignore_ascii_case(key, b_ENVID)
         THEN Bind(EnvId_try_from(Unwrap(value)), LAMBDA r : WithName("EnvId", r))
    ELSE IF eq_ignore_ascii_case(key, b_AUTH)
         THEN Bind(Auth_try_from(Unwrap(value)), LAMBDA r : WithName("Auth", r))
    ELSE IF eq_ignore_ascii_case(key, b_BODY)
         THEN Bind(Body_try_from(Unwrap(value)), LAMBDA r : WithName("Body", r))
    ELSE Err("InvalidParameter")

mail_Parameter_try_from(input) ==
    Bind(KeyValue(input), LAMBDA kv : mail_Parameter_match(kv.key, kv.value))

\* Variant: a field that is already set keeps its value
Mail_set_first_wins(mail, p) ==
    CASE p.name = "Size"  -> [mail EXCEPT !.size  = IF IsSome(@) THEN @ ELSE Some(p.val)]
      [] p.name = "Ret"   -> [mail EXCEPT !.ret   = IF IsSome(@) THEN @ ELSE Some(p.val)]
      [] p.name = "EnvId" -> [mail EXCEPT !.envid = IF IsSome(@) THEN @ ELSE Some(p.val)]
      [] p.name = "Auth"  -> [mail EXCEPT !.auth  = IF IsSome(@) THEN @ ELSE Some(p.val)]
      [] p.name = "Body"  -> [mail EXCEPT !.body  = IF IsSome(@) THEN @ ELSE Some(p.val)]

\* match parameter? { ... } of impl Parameters for Mail
Mail_set(mail, p) ==
    CASE p.name = "Size"  -> [mail EXCEPT !.size  = Some(p.val)]
      [] p.name = "Ret"   -> [mail EXCEPT !.ret   = Some(p.val)]
      [] p.name = "EnvId" -> [mail EXCEPT !.envid = Some(p.val)]
      [] p.name = "Auth"  -> [mail EXCEPT !.auth  = Some(p.val)]
      [] p.name = "Body"  -> [mail EXCEPT !.body  = Some(p.val)]

\* impl Parameters for Mail: the remaining tokens are parsed and folded in order;
\* the first failing one ends the fold.
RECURSIVE Mail_parameters(_, _)
Mail_parameters(mail, tokens) ==
    Bind(Tokens_next(tokens, SP), LAMBDA t :
         IF IsNone(t.item) THEN Ok(mail)
         ELSE Bind(mail_Parameter_try_from(Unwrap(t.item)), LAMBDA p :
              IF ~IsOk(p) THEN p ELSE Mail_parameters(Mail_set(mail, p.val), t.rest)))

\* ---------------------------------------------------------------------------
\* RCPT parameters (src/parse/rcpt.rs); a Notify is the set of its flags.
\* ---------------------------------------------------------------------------
RECURSIVE Notify_fold(_, _)
Notify_fold(flags, tokens) ==
    LET t == Tokens_next(tokens, 44)
    IN  IF IsNone(t.item) THEN Ok(flags)
        ELSE LET x == Unwrap(t.item)
             IN  IF eq_ignore_ascii_case(x, b_DELAY) THEN Notify_fold(flags \cup {"DELAY"}, t.rest)
                 ELSE IF eq_ignore_ascii_case(x, b_FAILURE) THEN Notify_fold(flags \cup {"FAILURE"}, t.rest)
                 ELSE IF eq_ignore_ascii_case(x, b_SUCCESS) THEN Notify_fold(flags \cup {"SUCCESS"}, t.rest)
                 ELSE Err("InvalidSyntax")

Notify_try_from(input) ==
    IF eq_ignore_ascii_case(input, b_NEVER) THEN Ok({})
    ELSE Notify_fold({}, input)

\* match (key, value) { ... } of rcpt::Parameter::try_from
rcpt_Parameter_match(key, value) ==
    IF IsNone(value) THEN Err("InvalidParameter")
    ELSE IF eq_ignore_ascii_case(key, b_NOTIFY)
         THEN Bind(Notify_try_from(Unwrap(value)), LAMBDA r : WithName("Notify", r))
    ELSE IF eq_ignore_ascii_case(key, b_ORCPT)
         THEN Bind(Email_try_from(Unwrap(value)), LAMBDA r : WithName("ORcpt", r))
    ELSE Err("InvalidParameter")

rcpt_Parameter_try_from(input) ==
    Bind(KeyValue(input), LAMBDA kv : rcpt_Parameter_match(kv.key, kv.value))

\* match parameter? { ... } of impl Parameters for Rcpt
Rcpt_set(rcpt, p) ==
    CASE p.name = "ORcpt"  -> [rcpt EXCEPT !.orcpt  = Some(p.val)]
      [] p.name = "Notify" -> [rcpt EXCEPT !.notify = Some(p.val)]

RECURSIVE Rcpt_parameters(_, _)
Rcpt_parameters(rcpt, tokens) ==
    Bind(Tokens_next(tokens, SP), LAMBDA t :
         IF IsNone(t.item) THEN Ok(rcpt)
         ELSE Bind(rcpt_Parameter_try_from(Unwrap(t.item)), LAMBDA p :
              IF ~IsOk(p) THEN p ELSE Rcpt_parameters(Rcpt_set(rcpt, p.val), t.rest)))

\* ---------------------------------------------------------------------------
\* Verb sub-parsers (src/parse/rfc5321.rs); tokens is what is left of the line
\* after the verb.
\* ---------------------------------------------------------------------------
helo(tokens) ==
    Bind(Tokens_next(tokens, SP), LAMBDA t1 :
         IF IsNone(t1.item) THEN Err("MissingParameter")
         ELSE IF IsSome(Tokens_next(t1.rest, SP).item) THEN Err("UnexpectedParameter")
         ELSE Bind(Domain_try_from(Unwrap(t1.item)), LAMBDA d :
              IF IsOk(d)
              THEN Ok([tag |-> "Helo", host |-> [tag |-> "Domain", domain |-> d.val]])
              ELSE d))

ehlo(tokens) ==
    Bind(Tokens_next(tokens, SP), LAMBDA t1 :
         IF IsNone(t1.item) THEN Err("MissingParameter")
         ELSE IF IsSome(Tokens_next(t1.rest, SP).item) THEN Err("UnexpectedParameter")
         ELSE Bind(Host_try_from(Unwrap(t1.item)), LAMBDA h :
              IF IsOk(h) THEN Ok([tag |-> "Ehlo", host |-> h.val]) ELSE h))

\* let from = if rp == b"<>"[..] { Null } else { Email(strip_angled, Email::parse) }
mail_from(rp) ==
    IF rp = b_NullPath THEN Ok([tag |-> "Null"])
    ELSE Bind(strip_angled(rp), LAMBDA ang :
         IF IsNone(ang) THEN Err("InvalidSyntax")
         ELSE Bind(Email_try_from(Unwrap(ang)), LAMBDA em :
              IF IsOk(em) THEN Ok([tag |-> "Email", email |-> em.val]) ELSE em))

mail(tokens) ==
    Bind(Tokens_next(tokens, SP), LAMBDA t1 :
         IF IsNone(t1.item) THEN Err("MissingParameter")
         ELSE Bind(strip_prefix_ci(Unwrap(t1.item), b_FROM), LAMBDA rp :
              IF IsNone(rp) THEN Err("InvalidSyntax")
              ELSE Bind(mail_from(Unwrap(rp)), LAMBDA from :
                   IF ~IsOk(from) THEN from
                   ELSE Bind(Mail_parameters(
                               [from |-> from.val, size |-> None, ret |-> None,
                                envid |-> None, auth |-> None, body |-> None],
                               t1.rest),
                             LAMBDA m :
                             IF IsOk(m) THEN Ok([tag |-> "Mail", mail |-> m.val]) ELSE m))))

\* strip_prefix_ci(b"TO:").and_then(strip_angled).ok_or(InvalidSyntax).and_then(Email::parse)
rcpt_to(token) ==
    Bind(strip_prefix_ci(token, b_TO), LAMBDA pre :
         IF IsNone(pre) THEN Err("InvalidSyntax")
         ELSE Bind(strip_angled(Unwrap(pre)), LAMBDA ang :
              IF IsNone(ang) THEN Err("InvalidSyntax") ELSE Email_try_from(Unwrap(ang))))

rcpt(tokens) ==
    Bind(Tokens_next(tokens, SP), LAMBDA t1 :
         IF IsNone(t1.item) THEN Err("MissingParameter")
         ELSE Bind(rcpt_to(Unwrap(t1.item)), LAMBDA to :
              IF ~IsOk(to) THEN to
              ELSE Bind(Rcpt_parameters([to |-> to.val, orcpt |-> None, notify |-> None],
                                        t1.rest),
                        LAMBDA r :
                        IF IsOk(r) THEN Ok([tag |-> "Rcpt", rcpt |-> r.val]) ELSE r)))

data(tokens) ==
    IF IsNone(Tokens_next(tokens, SP).item)
    THEN Ok([tag |-> "Data", payload |-> << >>])
    ELSE Err("UnexpectedParameter")

rset(tokens) ==
    IF IsNone(Tokens_next(tokens, SP).item) THEN Ok([tag |-> "Rset"])
    ELSE Err("UnexpectedParameter")

quit(tokens) ==
    IF IsNone(Tokens_next(tokens, SP).item) THEN Ok([tag |-> "Quit"])
    ELSE Err("UnexpectedParameter")

noop(tokens) ==
    IF IsNone(Tokens_next(tokens, SP).item) THEN Ok([tag |-> "Noop"])
    ELSE Err("UnexpectedParameter")

\* btou_radix::<usize>(&token, 10).map_err(...)
bdat_size(token) ==
    Bind(btou_radix(token), LAMBDA r :
         IF IsOk(r) THEN r
         ELSE IF r.err = "PosOverflow" THEN Err("TooLong")
         ELSE Err("InvalidSyntax"))

bdat(tokens) ==
    Bind(Tokens_next(tokens, SP), LAMBDA t1 :
         IF IsNone(t1.item) THEN Err("MissingParameter")
         ELSE Bind(bdat_size(Unwrap(t1.item)), LAMBDA n :
              IF ~IsOk(n) THEN n
              ELSE Bind(Tokens_next(t1.rest, SP), LAMBDA t2 :
                   IF IsSome(t2.item) /\ ~eq_ignore_ascii_case(Unwrap(t2.item), b_LAST)
                   THEN Err("UnexpectedParameter")
                   ELSE IF IsSome(Tokens_next(t2.rest, SP).item) THEN Err("UnexpectedParameter")
                   ELSE Ok([tag |-> "Bdat",
                            bdat |-> [size |-> n.val, last |-> IsSome(t2.item),
                                      payload |-> << >>]]))))

\* todo!() panics
vrfy(tokens) == Panic
expn(tokens) == Panic
help(tokens) == Panic

\* ---------------------------------------------------------------------------
\* impl TryFrom<Bytes> for Command (src/parse/parse_impl.rs)
\* ---------------------------------------------------------------------------
Command_dispatch(token, tokens) ==
    IF eq_ignore_ascii_case(token, b_HELO) THEN helo(tokens)
    ELSE IF eq_ignore_ascii_case(token, b_EHLO) THEN ehlo(tokens)
    ELSE IF eq_ignore_ascii_case(token, b_MAIL) THEN mail(tokens)
    ELSE IF eq_ignore_ascii_case(token, b_RCPT) THEN rcpt(tokens)
    ELSE IF eq_ignore_ascii_case(token, b_DATA) THEN data(tokens)
    ELSE IF eq_ignore_ascii_case(token, b_RSET) THEN rset(tokens)
    ELSE IF eq_ignore_ascii_case(token, b_VRFY) THEN vrfy(tokens)
    ELSE IF eq_ignore_ascii_case(token, b_EXPN) THEN expn(tokens)
    ELSE IF eq_ignore_ascii_case(token, b_HELP) THEN help(tokens)
    ELSE IF eq_ignore_ascii_case(token, b_NOOP) THEN noop(tokens)
    ELSE IF eq_ignore_ascii_case(token, b_QUIT) THEN quit(tokens)
    ELSE IF eq_ignore_ascii_case(token, b_BDAT) THEN bdat(tokens)
    ELSE Err("CommandNotImplemented")

\* Variant: a line without a token is dispatched like an unknown verb
Command_try_from_dispatching_nothing(input) ==
    Bind(Tokens_next(input, SP), LAMBDA t :
         Command_dispatch(IF IsNone(t.item) THEN << >> ELSE Unwrap(t.item), t.rest))

Command_try_from(input) ==
    Bind(Tokens_next(input, SP), LAMBDA t :
         IF IsNone(t.item) THEN Err("Empty") ELSE Command_dispatch(Unwrap(t.item), t.rest))

\* ---------------------------------------------------------------------------
\* Lines (src/parse/iterators.rs): the iterator state is (bytes, next_index).
\* ---------------------------------------------------------------------------
Lines_next(bytes, next_index) ==
    LET f == Finder_find(CRLF, DropFront(bytes, next_index))
    IN  IF IsSome(f)
        THEN [item |-> Some(SubSeq(bytes, next_index + 1, next_index + Unwrap(f))),
              next_index |-> next_index + Unwrap(f) + 2]
        ELSE [item |-> None, next_index |-> next_index]

\* ---------------------------------------------------------------------------
\* Parser (src/parser.rs)
\* ---------------------------------------------------------------------------
\* enum State
StCommand == [tag |-> "Command"]
StData == [tag |-> "Data"]
\* Variant: the state remembers one byte more than announced
StBdat_plus(b) == [tag |-> "Bdat", size |-> b.size + 1, last |-> b.last]

StBdat(b) == [tag |-> "Bdat", size |-> b.size, last |-> b.last]

\* Variant: one byte more than max is let through
buffer_too_long_late(buf, max) == Len(buf) > max + 1

\* if buf.len() > self.max
buffer_too_long(buf, max) == Len(buf) > max

\* Variant: a line of exactly max::COMMAND_LINE bytes is refused
command_line_too_long_early(pos) == pos >= max_COMMAND_LINE

\* if pos > max::COMMAND_LINE
command_line_too_long(pos) == pos > max_COMMAND_LINE

\* Variant: the CRLF of the over-long line is discarded with it
after_long_line_with_crlf(buf, pos) == DropFront(buf, pos + 2)

\* buf.advance(pos) of the over-long line
after_long_line(buf, pos) == DropFront(buf, pos)

\* Variant: one byte more than the CRLF is consumed
after_command_line_long(buf, pos) == DropFront(buf, pos + 3)

\* let command = buf.split_to(pos); buf.advance(2);
after_command_line(buf, pos) == DropFront(buf, pos + 2)

\* Variant: the last byte of the body is dropped from the payload
data_payload_trimmed(buf, pos) == TakeFront(buf, pos - 1)

\* let payload = buf.split_to(pos); ... Command::Data(lines.into_bytes())
data_payload(buf, pos) == TakeFront(buf, pos)

\* Variant: only 3 of the 5 terminator bytes are consumed
after_data_short(buf, pos) == DropFront(buf, pos + 3)

\* let payload = buf.split_to(pos); buf.advance(5);
after_data(buf, pos) == DropFront(buf, pos + 5)

\* if line.len() > max::DATA_LINE
data_line_too_long(line) == Len(line) > max_DATA_LINE

\* for line in lines.by_ref(): TRUE when some yielded line is too long
RECURSIVE some_line_too_long(_, _)
some_line_too_long(payload, next_index) ==
    LET l == Lines_next(payload, next_index)
    IN  IF IsNone(l.item) THEN FALSE
        ELSE IF data_line_too_long(Unwrap(l.item)) THEN TRUE
        ELSE some_line_too_long(payload, l.next_index)

\* Variant: the announced size is not compared with max
bdat_too_long_unchecked(size, max) == FALSE

\* if bdat.size > self.max
bdat_too_long(size, max) == size > max

\* Variant: a buffer of exactly size bytes still waits
bdat_incomplete_late(buf, size) == Len(buf) <= size

\* if buf.len() < bdat.size
bdat_incomplete(buf, size) == Len(buf) < size

\* Variant: the payload is copied out and left in the buffer
after_bdat_kept(buf, size) == buf

\* let payload = buf.split_to(bdat.size)
after_bdat(buf, size) == DropFront(buf, size)

\* What one call of parse gives back: the returned value, the buffer and the
\* parser state it leaves, and, for the properties, the lines it handed to
\* Command::try_from, the number of state dispatches of its loop, and the
\* number of buffer bytes the returned value was built from.
Outcome(ret, buf, state, handed, steps, used) ==
    [ret |-> ret, buf |-> buf, state |-> state, handed |-> handed, steps |-> steps,
     used |-> used]

\* Variant: partial input is dropped when more bytes are needed
need_more_dropping(state, buf, handed, steps, used) ==
    Outcome(Ok(None), << >>, state, handed, steps, used)

\* return Ok(None): more bytes are needed, the buffer is left as it is
need_more(state, buf, handed, steps, used) ==
    Outcome(Ok(None), buf, state, handed, steps, used)

\* Variant: the buffer is not cleared
on_buffer_too_long_keeping(state, buf, handed, steps, used) ==
    Outcome(Err("TooLong"), buf, StCommand, handed, steps, used)

\* buf.clear(); self.state = State::Command; return Err(Error::TooLong);
on_buffer_too_long(state, buf, handed, steps, used) ==
    Outcome(Err("TooLong"), << >>, StCommand, handed, steps, used)

\* Variant: the state is not reset
on_data_line_too_long_staying(state, rest, handed, steps, used) ==
    Outcome(Err("TooLong"), rest, state, handed, steps, used)

\* a DATA line is too long: self.state = State::Command; return Err(Error::TooLong);
on_data_line_too_long(state, rest, handed, steps, used) ==
    Outcome(Err("TooLong"), rest, StCommand, handed, steps, used)

RECURSIVE parse_loop(_, _, _, _, _, _)

\* Variant: every rejection is reported as InvalidSyntax
on_command_error_masking(r, state, rest, h, steps, u) ==
    Outcome(IF r.kind = "Err" THEN Err("InvalidSyntax") ELSE r, rest, state, h, steps, u)

\* Command::try_from(command.freeze())?  -- the error (or panic) of the
\* single-command parser leaves parse as it is, the line already consumed
on_command_error(r, state, rest, h, steps, u) ==
    Outcome(r, rest, state, h, steps, u)

\* Variant: DATA and BDAT are returned like any other command, without a body
parse_Command_match_eager(r, state, max, rest, h, steps, u) ==
    IF r.kind # "Ok" THEN on_command_error(r, state, rest, h, steps, u)
    ELSE Outcome(Ok(Some(r.val)), rest, state, h, steps, u)

\* match Command::try_from(command.freeze())? { ... }
parse_Command_match(r, state, max, rest, h, steps, u) ==
    IF r.kind # "Ok" THEN on_command_error(r, state, rest, h, steps, u)
    ELSE IF r.val.tag = "Data" THEN parse_loop(StData, max, rest, h, steps, u)
    ELSE IF r.val.tag = "Bdat" THEN parse_loop(StBdat(r.val.bdat), max, rest, h, steps, u)
    ELSE Outcome(Ok(Some(r.val)), rest, state, h, steps, u)

\* Variant: the line ceiling is applied to a buffer that holds no CRLF yet
parse_Command_eager_ceiling(state, max, buf, handed, steps, used) ==
    LET f == Finder_find(CRLF, buf)
    IN  IF IsNone(f)
        THEN IF command_line_too_long(Len(buf))
             THEN Outcome(Err("TooLong"), << >>, state, handed, steps, used + Len(buf))
             ELSE need_more(state, buf, handed, steps, used)
        ELSE LET pos == Unwrap(f)
             IN  IF command_line_too_long(pos)
                 THEN Outcome(Err("TooLong"), after_long_line(buf, pos), state, handed, steps,
                              used + pos)
                 ELSE parse_Command_match(Command_try_from(TakeFront(buf, pos)), state, max,
                                          after_command_line(buf, pos),
                                          Append(handed, TakeFront(buf, pos)), steps,
                                          used + pos + 2)

\* State::Command => { ... }
parse_Command(state, max, buf, handed, steps, used) ==
    LET f == Finder_find(CRLF, buf)
    IN  IF IsNone(f) THEN need_more(state, buf, handed, steps, used)
        ELSE LET pos == Unwrap(f)
             IN  IF command_line_too_long(pos)
                 THEN Outcome(Err("TooLong"), after_long_line(buf, pos), state, handed, steps,
                              used + pos)
                 ELSE parse_Command_match(Command_try_from(TakeFront(buf, pos)), state, max,
                                          after_command_line(buf, pos),
                                          Append(handed, TakeFront(buf, pos)), steps,
                                          used + pos + 2)

\* Variant: a body with an over-long line is refused where it lies, nothing
\* of it being consumed
parse_Data_refusing_unconsumed(state, max, buf, handed, steps, used) ==
    LET f == Finder_find(CRLFDotCRLF, buf)
    IN  IF IsNone(f) THEN need_more(state, buf, handed, steps, used)
        ELSE LET pos     == Unwrap(f)
                 payload == data_payload(buf, pos)
                 rest    == after_data(buf, pos)
             IN  IF some_line_too_long(payload, 0)
                 THEN on_data_line_too_long(state, buf, handed, steps, used)
                 ELSE Outcome(Ok(Some([tag |-> "Data", payload |-> payload])), rest, StCommand,
                              handed, steps, used + pos + 5)

\* Variant: a '.' line at the very start of the body ends an empty body
parse_Data_ending_empty_body(state, max, buf, handed, steps, used) ==
    IF Len(buf) >= 3 /\ TakeFront(buf, 3) = <<46, 13, 10>>
    THEN Outcome(Ok(Some([tag |-> "Data", payload |-> << >>])), DropFront(buf, 3), StCommand,
                 handed, steps, used + 3)
    ELSE LET f == Finder_find(CRLFDotCRLF, buf)
         IN  IF IsNone(f) THEN need_more(state, buf, handed, steps, used)
             ELSE LET pos     == Unwrap(f)
                      payload == data_payload(buf, pos)
                      rest    == after_data(buf, pos)
                  IN  IF some_line_too_long(payload, 0)
                      THEN on_data_line_too_long(state, rest, handed, steps, used + pos + 5)
                      ELSE Outcome(Ok(Some([tag |-> "Data", payload |-> payload])), rest,
                                   StCommand, handed, steps, used + pos + 5)

\* State::Data => { ... }
parse_Data(state, max, buf, handed, steps, used) ==
    LET f == Finder_find(CRLFDotCRLF, buf)
    IN  IF IsNone(f) THEN need_more(state, buf, handed, steps, used)
        ELSE LET pos     == Unwrap(f)
                 payload == data_payload(buf, pos)
                 rest    == after_data(buf, pos)
             IN  IF some_line_too_long(payload, 0)
                 THEN on_data_line_too_long(state, rest, handed, steps, used + pos + 5)
                 ELSE Outcome(Ok(Some([tag |-> "Data", payload |-> payload])), rest, StCommand,
                              handed, steps, used + pos + 5)

\* Variant: a chunk is handed over only once the buffer holds a CRLF
parse_Bdat_seeking_crlf(state, max, buf, handed, steps, used) ==
    IF bdat_too_long(state.size, max)
    THEN IF advance_panics(buf, state.size)
         THEN Outcome(Panic, buf, state, handed, steps, used)
         ELSE Outcome(Err("TooLong"), DropFront(buf, state.size), StCommand, handed, steps,
                      used + state.size)
    ELSE IF bdat_incomplete(buf, state.size) \/ IsNone(Finder_find(CRLF, buf))
         THEN need_more(state, buf, handed, steps, used)
    ELSE Outcome(Ok(Some([tag |-> "Bdat",
                          bdat |-> [size |-> state.size, last |-> state.last,
                                    payload |-> TakeFront(buf, state.size)]])),
                 after_bdat(buf, state.size), StCommand, handed, steps, used + state.size)

\* State::Bdat(ref bdat) => { ... }
parse_Bdat(state, max, buf, handed, steps, used) ==
    IF bdat_too_long(state.size, max)
    THEN IF advance_panics(buf, state.size)
         THEN Outcome(Panic, buf, state, handed, steps, used)
         ELSE Outcome(Err("TooLong"), DropFront(buf, state.size), StCommand, handed, steps,
                      used + state.size)
    ELSE IF bdat_incomplete(buf, state.size)
         THEN need_more(state, buf, handed, steps, used)
    ELSE Outcome(Ok(Some([tag |-> "Bdat",
                          bdat |-> [size |-> state.size, last |-> state.last,
                                    payload |-> TakeFront(buf, state.size)]])),
                 after_bdat(buf, state.size), StCommand, handed, steps, used + state.size)

\* loop { ... } of Parser::parse
parse_loop(state, max, buf, handed, steps, used) ==
    IF buffer_too_long(buf, max)
    THEN on_buffer_too_long(state, buf, handed, steps, used)
    ELSE CASE state.tag = "Command" -> parse_Command(state, max, buf, handed, steps + 1, used)
           [] state.tag = "Data"    -> parse_Data(state, max, buf, handed, steps + 1, used)
           [] state.tag = "Bdat"    -> parse_Bdat(state, max, buf, handed, steps + 1, used)

\* pub fn parse(&mut self, buf: &mut BytesMut)
Parser_parse(state, max, buf) == parse_loop(state, max, buf, << >>, 0, 0)

\* ---------------------------------------------------------------------------
\* The caller: one Parser, one buffer, and an input stream that arrives in
\* fragments.
\* ---------------------------------------------------------------------------
\* Wire fragments the input streams are made of
\* 'NOOP\r\n'
w_NOOP == <<78, 79, 79, 80, 13, 10>>
\* 'DATA\r\n'
w_DATA == <<68, 65, 84, 65, 13, 10>>
\* 'Hi\r\n.\r\n'
w_Body == <<72, 105, 13, 10, 46, 13, 10>>
\* 'BDAT 3\r\n'
w_BDAT3 == <<66, 68, 65, 84, 32, 51, 13, 10>>
\* 'a\r\n'
w_Chunk == <<97, 13, 10>>
\* 'BDAT 0 LAST\r\n'
w_BDAT0 == <<66, 68, 65, 84, 32, 48, 32, 76, 65, 83, 84, 13, 10>>
\* 'BDAT 12\r\n'
w_BDAT12 == <<66, 68, 65, 84, 32, 49, 50, 13, 10>>
\* 'VRFY\r\n'
w_VRFY == <<86, 82, 70, 89, 13, 10>>
\* '.'
w_Dot == <<46>>
\* 'MAIL FROM:<a@b.c>\r\n'
w_MAIL == <<77, 65, 73, 76, 32, 70, 82, 79, 77, 58, 60, 97, 64, 98, 46, 99, 62, 13, 10>>

Pieces == {w_NOOP, w_DATA, w_Body, w_BDAT3, w_Chunk, w_BDAT0, w_BDAT12, w_VRFY, w_Dot, w_MAIL}

\* The number of pieces of a short stream
MaxPieces == 2
\* The largest number of bytes one extend_from_slice appends
MaxChunk == 2

RECURSIVE Concats(_)
Concats(n) ==
    IF n = 0 THEN {<< >>}
    ELSE Concats(n - 1) \cup {p \o t : p \in Pieces, t \in Concats(n - 1)}

\* n bytes 'x'
Filler(n) == [i \in 1..n |-> 120]

\* Streams with a long line; the first `bulk` bytes arrive in one fragment.
LongStreams ==
    {[bytes |-> Filler(n) \o CRLF \o t, bulk |-> 505] :
        n \in {510, 511, 520}, t \in {<< >>, w_NOOP}}
    \cup
    {[bytes |-> w_DATA \o Filler(n) \o t \o CRLFDotCRLF \o w_NOOP, bulk |-> 995] :
        n \in {998, 999}, t \in {<< >>, CRLF \o <<97>>}}
    \cup
    {[bytes |-> Filler(2050) \o CRLF, bulk |-> 2045]}

\* 'BDAT 0\r\n'
w_BDAT0n == <<66, 68, 65, 84, 32, 48, 13, 10>>

\* Further streams, each arriving in fragments of at most MaxChunk bytes
\* 'a\r\n..b': two body lines, the second one dot-stuffed
w_Stuffed == <<97, 13, 10, 46, 46, 98>>

\* 'HELO -bad.example\r\n'
w_HELObad == <<72, 69, 76, 79, 32, 45, 98, 97, 100, 46, 101, 120, 97, 109, 112, 108, 101, 13, 10>>
\* 'RSET\r\n'
w_RSET == <<82, 83, 69, 84, 13, 10>>
\* 'MAIL FROM:<> X\r\n'
w_MAILbadparam == <<77, 65, 73, 76, 32, 70, 82, 79, 77, 58, 60, 62, 32, 88, 13, 10>>
\* 'HELO\r\n'
w_HELOalone == <<72, 69, 76, 79, 13, 10>>
\* 'NOOP x\r\n'
w_NOOPx == <<78, 79, 79, 80, 32, 120, 13, 10>>

\* 'NOOP\n', 'NO\rOP\nRSET\r\n', '\n\rNOOP\r\n': bare LF and bare CR bytes
w_NOOPlf == <<78, 79, 79, 80, 10>>
w_BareInside == <<78, 79, 13, 79, 80, 10, 82, 83, 69, 84, 13, 10>>
w_LFCR == <<10, 13, 78, 79, 79, 80, 13, 10>>

\* ' \r\n': a line of one space
w_SPalone == <<32, 13, 10>>

\* Lines the single-command parser rejects
RejectedLines == {w_HELObad, w_MAILbadparam, w_HELOalone, w_NOOPx, w_Chunk, CRLF, w_SPalone}

\* BDAT lines with a missing, malformed or surplus argument
BdatLines ==
    {<<66, 68, 65, 84>>,  \* 'BDAT'
     <<66, 68, 65, 84, 32>>,  \* 'BDAT '
     <<66, 68, 65, 84, 32, 120>>,  \* 'BDAT x'
     <<66, 68, 65, 84, 32, 45, 49>>,  \* 'BDAT -1'
     <<66, 68, 65, 84, 32, 43, 49>>,  \* 'BDAT +1'
     <<66, 68, 65, 84, 32, 49, 120>>,  \* 'BDAT 1x'
     <<66, 68, 65, 84, 32, 32, 49>>,  \* 'BDAT  1'
     <<66, 68, 65, 84, 32, 49, 32, 120>>,  \* 'BDAT 1 x'
     <<98, 100, 97, 116, 32, 49, 32, 108, 97, 115, 116, 120>>,  \* 'bdat 1 lastx'
     <<66, 68, 65, 84, 32, 49, 32, 108, 97, 115, 116, 32, 120>>,  \* 'BDAT 1 last x'
     <<66, 68, 65, 84, 32, 49, 32, 76, 65, 83, 84, 32, 76, 65, 83, 84>>,  \* 'BDAT 1 LAST LAST'
     <<66, 68, 65, 84, 32, 49, 32>>,  \* 'BDAT 1 '
     <<66, 68, 65, 84, 32, 49, 32, 76, 65, 83, 84, 32>>,  \* 'BDAT 1 LAST '
     <<66, 68, 65, 84, 32, 57, 57, 57, 57, 57, 57, 57, 57, 57, 57, 57, 57, 57, 57, 57, 57, 57, 57, 57, 57, 120>>}  \* 'BDAT 99999999999999999999x'

\* DATA, RSET, QUIT and NOOP lines with something after the verb
ArgumentLines ==
    {<<68, 65, 84, 65, 32, 120>>,  \* 'DATA x'
     <<100, 97, 116, 97, 32, 32, 120>>,  \* 'data  x'
     <<82, 83, 69, 84, 32, 120>>,  \* 'RSET x'
     <<81, 85, 73, 84, 32, 120, 32, 121>>,  \* 'QUIT x y'
     <<113, 117, 105, 116, 32, 49>>,  \* 'quit 1'
     <<78, 79, 79, 80, 32, 78, 79, 79, 80>>,  \* 'NOOP NOOP'
     <<68, 65, 84, 65, 32>>,  \* 'DATA '
     <<82, 83, 69, 84, 32>>,  \* 'RSET '
     <<81, 85, 73, 84, 32>>,  \* 'QUIT '
     <<78, 79, 79, 80, 32>>}  \* 'NOOP '

\* '.\r\n': the line that ends a body
w_DotLine == <<46, 13, 10>>
\* DATA, the end-of-body line at once, then NOOP: an empty body
w_EmptyBody == w_DATA \o w_DotLine \o w_NOOP
\* The same, followed by one more end-of-body line
w_EmptyBodyEnded == w_DATA \o w_DotLine \o w_NOOP \o w_DotLine

\* 'DATA x\r\n'
w_DATAx == <<68, 65, 84, 65, 32, 120, 13, 10>>

\* 'BDAT 5\r\nHELLOBDAT 6 LAST\r\n WORLD': a chunk followed at once by the next
\* BDAT line
w_TwoChunks ==
    <<66, 68, 65, 84, 32, 53, 13, 10, 72, 69, 76, 76, 79,
      66, 68, 65, 84, 32, 54, 32, 76, 65, 83, 84, 13, 10, 32, 87, 79, 82, 76, 68>>
\* 'BDAT 5\r\n' and a payload that is a DATA terminator, then NOOP
w_ChunkTerminator == <<66, 68, 65, 84, 32, 53, 13, 10>> \o CRLFDotCRLF \o w_NOOP
\* 'BDAT 6\r\nQUIT\r\n': a payload that is a command line, then RSET
w_ChunkQuit == <<66, 68, 65, 84, 32, 54, 13, 10, 81, 85, 73, 84, 13, 10>> \o w_RSET

ScenarioStreams ==
    {[bytes |-> b, bulk |-> 0] :
        b \in {w_BDAT0n \o w_NOOP, w_NOOP \o w_BDAT0n,
               w_DATA \o w_Stuffed \o CRLFDotCRLF \o w_NOOP,
               w_TwoChunks, w_ChunkTerminator, w_ChunkQuit, w_EmptyBody, w_EmptyBodyEnded}
              \cup {l \o w_RSET : l \in RejectedLines}
              \cup {l \o CRLF \o w_RSET : l \in BdatLines}
              \cup {l \o CRLF \o w_NOOP : l \in ArgumentLines}
              \cup {w_NOOPlf, w_NOOPlf \o w_NOOPlf, w_BareInside, w_LFCR}}

Streams ==
    {[bytes |-> b, bulk |-> 0] : b \in Concats(MaxPieces)} \cup LongStreams \cup ScenarioStreams

\* The values of `max` given to Parser::new
MaxChoices == {10, 2048}

VARIABLES
    stream,     \* the bytes the peer sends, all of them
    bulk,       \* how many of them arrive in the first fragment at least
    arrived,    \* how many have been appended to buf so far
    buf,        \* the caller's BytesMut
    state,      \* Parser.state
    max,        \* Parser.max
    call,       \* the last call of parse, until the next append
    pend,       \* bytes earlier calls removed for the command being framed
    off,        \* how many stream bytes have left the buffer
    results,    \* what the calls returned so far, need-more-bytes excepted
    twin,       \* a second Parser with its own buffer, fed the same stream
    probe       \* a value handed to the serializer or to a parsing function,
                \* with what came back

vars == << stream, bulk, arrived, buf, state, max, call, pend, off, results, twin, probe >>

NoCall ==
    [active |-> FALSE, ret |-> Ok(None), buf0 |-> << >>, state0 |-> StCommand,
     pend0 |-> << >>, handed |-> << >>, steps |-> 0, used |-> 0]

Panicked == call.active /\ call.ret.kind = "Panic"

\* The second parser before anything happened to it: Parser::new(max), an empty
\* buffer, no call made
NoTwin ==
    [buf |-> << >>, state |-> StCommand, arrived |-> 0, off |-> 0, active |-> FALSE,
     buf0 |-> << >>, state0 |-> StCommand, ret |-> Ok(None)]

\* No value is under study
NoProbe == [kind |-> "None"]

\* Parser::new(max), an empty buffer
Init ==
    /\ \E sc \in Streams : stream = sc.bytes /\ bulk = sc.bulk
    /\ max \in MaxChoices
    /\ arrived = 0
    /\ buf = << >>
    /\ state = StCommand
    /\ call = NoCall
    /\ pend = << >>
    /\ off = 0
    /\ results = << >>
    /\ twin = NoTwin
    /\ probe = NoProbe

\* buf.extend_from_slice(the next k bytes of the stream)
Extend(k) ==
    /\ ~Panicked
    /\ arrived + k <= Len(stream)
    /\ IF arrived < bulk THEN k = bulk ELSE k \in 1..MaxChunk
    /\ buf' = buf \o SubSeq(stream, arrived + 1, arrived + k)
    /\ arrived' = arrived + k
    /\ call' = NoCall
    /\ UNCHANGED << stream, bulk, state, max, pend, off, results, twin, probe >>

\* parser.parse(&mut buf)
IsNeedMore(ret) == ret.kind = "Ok" /\ IsNone(ret.val)
IsCommand(ret) == ret.kind = "Ok" /\ IsSome(ret.val)
IsTooLong(ret) == ret.kind = "Err" /\ ret.err = "TooLong"

\* Variant: a parser that remembers having consumed bytes before, and then
\* answers every complete command with InvalidSyntax
Returned_remembering(o) ==
    /\ buf' = o.buf
    /\ state' = o.state
    /\ call' = [active |-> TRUE,
                ret |-> IF off > 0 /\ IsCommand(o.ret) THEN Err("InvalidSyntax") ELSE o.ret,
                buf0 |-> buf, state0 |-> state,
                pend0 |-> pend, handed |-> o.handed, steps |-> o.steps,
                used |-> o.used]
    /\ pend' = IF IsNeedMore(o.ret)
               THEN pend \o TakeFront(buf, Len(buf) - Len(o.buf))
               ELSE << >>
    /\ off' = off + (Len(buf) - Len(o.buf))
    /\ results' = IF IsNeedMore(o.ret) THEN results
                  ELSE Append(results,
                              [ret  |-> o.ret,
                               from |-> off - Len(pend),
                               to   |-> off + o.used])

\* The caller's view of a call whose outcome is o
Returned(o) ==
    /\ buf' = o.buf
    /\ state' = o.state
    /\ call' = [active |-> TRUE, ret |-> o.ret, buf0 |-> buf, state0 |-> state,
                pend0 |-> pend, handed |-> o.handed, steps |-> o.steps,
                used |-> o.used]
    /\ pend' = IF IsNeedMore(o.ret)
               THEN pend \o TakeFront(buf, Len(buf) - Len(o.buf))
               ELSE << >>
    /\ off' = off + (Len(buf) - Len(o.buf))
    /\ results' = IF IsNeedMore(o.ret) THEN results
                  ELSE Append(results,
                              [ret  |-> o.ret,
                               from |-> off - Len(pend),
                               to   |-> off + o.used])

Parse ==
    /\ ~Panicked
    /\ Returned(Parser_parse(state, max, buf))
    /\ UNCHANGED << stream, bulk, arrived, max, twin, probe >>

Next ==
    \/ \E k \in (1..MaxChunk) \cup {bulk} : Extend(k)
    \/ Parse

Spec == Init /\ [][Next]_vars

\* ---------------------------------------------------------------------------
\* Two parsers with the same max, each with its own buffer, fed the same
\* stream in fragments of their own and called at moments of their own.
\* ---------------------------------------------------------------------------
TwinStreams ==
    {w_NOOP \o w_NOOP, w_DATA \o w_Body, w_BDAT3 \o w_Chunk, w_Chunk \o w_NOOP,
     w_BDAT12 \o w_NOOP}

TwinPanicked == twin.active /\ twin.ret.kind = "Panic"

TwinInit == Init /\ stream \in TwinStreams

\* twin_buf.extend_from_slice(the next k bytes of the stream)
TwinExtend(k) ==
    /\ ~TwinPanicked
    /\ twin.arrived + k <= Len(stream)
    /\ twin' = [twin EXCEPT !.buf = @ \o SubSeq(stream, twin.arrived + 1, twin.arrived + k),
                            !.arrived = @ + k,
                            !.active = FALSE]
    /\ UNCHANGED << stream, bulk, arrived, buf, state, max, call, pend, off, results, probe >>

\* The second parser's view of a call whose outcome is o
TwinReturned(o) ==
    twin' = [buf |-> o.buf, state |-> o.state, arrived |-> twin.arrived,
             off |-> twin.off + (Len(twin.buf) - Len(o.buf)), active |-> TRUE,
             buf0 |-> twin.buf, state0 |-> twin.state, ret |-> o.ret]

\* twin_parser.parse(&mut twin_buf)
TwinParse ==
    /\ ~TwinPanicked
    /\ TwinReturned(Parser_parse(twin.state, max, twin.buf))
    /\ UNCHANGED << stream, bulk, arrived, buf, state, max, call, pend, off, results, probe >>

TwinNext ==
    \/ \E k \in (1..MaxChunk) \cup {bulk} : Extend(k)
    \/ Parse
    \/ \E k \in 1..MaxChunk : TwinExtend(k)
    \/ TwinParse

SpecTwin == TwinInit /\ [][TwinNext]_vars


\* ---------------------------------------------------------------------------
\* Properties of Parser::parse
\* ---------------------------------------------------------------------------
\* The command a call returned
Returned_command == Unwrap(call.ret.val)

\* The bytes the last call removed from the front of the buffer
Removed == TakeFront(call.buf0, Len(call.buf0) - Len(buf))

\* The bytes that follow a command's line and CRLF on the wire
Body(cmd) ==
    CASE cmd.tag = "Data" -> cmd.payload \o CRLFDotCRLF
      [] cmd.tag = "Bdat" -> cmd.bdat.payload
      [] OTHER            -> << >>

\* The single-command parser turns `line` into cmd (payload aside)
LineYields(line, cmd) ==
    Bind(Command_try_from(line), LAMBDA r :
         /\ IsOk(r)
         /\ CASE cmd.tag = "Data" -> r.val.tag = "Data"
              [] cmd.tag = "Bdat" -> /\ r.val.tag = "Bdat"
                                     /\ r.val.bdat.size = cmd.bdat.size
                                     /\ r.val.bdat.last = cmd.bdat.last
                                     /\ Len(cmd.bdat.payload) = cmd.bdat.size
              [] OTHER            -> r.val = cmd)

\* bytes is exactly cmd on the wire: its line, CRLF, and its body
IsFrameOf(bytes, cmd) ==
    LET f == Finder_find(CRLF, bytes)
    IN  /\ IsSome(f)
        /\ LineYields(TakeFront(bytes, Unwrap(f)), cmd)
        /\ DropFront(bytes, Unwrap(f) + 2) = Body(cmd)

\* C1 as stated: whenever a call returns a command, the bytes that call removed
\* from the front of the buffer are exactly the command's line, its CRLF and its
\* body, and the bytes after them are still in the buffer unchanged.
C1_RemovedIsFrame ==
    (call.active /\ IsCommand(call.ret))
        => /\ IsFrameOf(Removed, Returned_command)
           /\ call.buf0 = Removed \o buf

\* C1, amended: whenever a call returns a command, the bytes that call removed,
\* preceded by the DATA/BDAT line and CRLF an earlier need-more call removed for
\* this command (if any), are exactly the command's line, its CRLF and its body;
\* the bytes after them are still in the buffer unchanged.
C1_RemovedWithPendingIsFrame ==
    (call.active /\ IsCommand(call.ret))
        => /\ IsFrameOf(call.pend0 \o Removed, Returned_command)
           /\ call.buf0 = Removed \o buf

\* A Data command comes back from a call that began in the Data state, its DATA
\* line removed by an earlier call, with later bytes left in the buffer.
C1_Witness ==
    /\ call.active
    /\ IsCommand(call.ret)
    /\ Returned_command.tag = "Data"
    /\ call.state0 = StData
    /\ call.pend0 # << >>
    /\ buf # << >>

\* C2 as stated: whenever a call returns need-more-bytes, the buffer after the
\* call is identical to the buffer before it.
C2_NeedMoreKeepsBuffer ==
    (call.active /\ IsNeedMore(call.ret)) => buf = call.buf0

\* The line the call handed over is a DATA or BDAT line that put the parser in
\* the state st
LineEnters(line, st) ==
    Bind(Command_try_from(line), LAMBDA r :
         /\ IsOk(r)
         /\ \/ r.val.tag = "Data" /\ st = StData
            \/ r.val.tag = "Bdat" /\ st = StBdat(r.val.bdat))

\* C2, amended: whenever a call returns need-more-bytes, either the buffer and
\* the state are as before the call, or the call began in the Command state,
\* removed exactly one complete DATA or BDAT line and its CRLF, left every later
\* byte in place, and moved to the Data or Bdat state of that line.
C2_NeedMoreKeepsBufferOrEntersBody ==
    (call.active /\ IsNeedMore(call.ret))
        => \/ /\ buf = call.buf0
              /\ state = call.state0
              /\ call.handed = << >>
           \/ /\ call.state0 = StCommand
              /\ Len(call.handed) = 1
              /\ call.buf0 = call.handed[1] \o CRLF \o buf
              /\ LineEnters(call.handed[1], state)

\* A call returns need-more-bytes after removing a DATA line, with part of the
\* body left in the buffer.
C2_Witness ==
    /\ call.active
    /\ IsNeedMore(call.ret)
    /\ call.state0 = StCommand
    /\ state = StData
    /\ Len(call.handed) = 1
    /\ buf # << >>

\* C3: a call of parse never panics: it returns a command, need-more-bytes or
\* an error, also for BDAT with size > max and for VRFY, EXPN and HELP.
C3_NeverPanics == ~Panicked

\* The results that are commands
IsCommandAt(i) == IsCommand(results[i].ret)

\* C4: commands are returned in the order of the stream ranges they were built
\* from, no stream byte belongs to two returned commands, and each range holds
\* exactly its command.
C4_CommandsInInputOrder ==
    /\ \A i \in DOMAIN results : \A j \in DOMAIN results :
          (i < j /\ IsCommandAt(i) /\ IsCommandAt(j))
              => results[i].to <= results[j].from
    /\ \A i \in DOMAIN results :
          IsCommandAt(i)
              => /\ 0 <= results[i].from
                 /\ results[i].from < results[i].to
                 /\ results[i].to <= arrived
                 /\ IsFrameOf(SubSeq(stream, results[i].from + 1, results[i].to),
                              Unwrap(results[i].ret.val))

\* Two commands have been returned, the first a DATA command with its body.
C4_Witness ==
    /\ Len(results) >= 2
    /\ IsCommandAt(1)
    /\ IsCommandAt(2)
    /\ Unwrap(results[1].ret.val).tag = "Data"
    /\ Len(Unwrap(results[1].ret.val).payload) > 0

\* What the calls have returned so far, in order
Rets == [i \in DOMAIN results |-> results[i].ret]

\* The whole of b appended at once to an empty buffer, then parse called until
\* it returns need-more-bytes (or panics)
RECURSIVE BatchRun(_, _, _, _)
BatchRun(st, mx, b, acc) ==
    Bind(Parser_parse(st, mx, b), LAMBDA o :
         IF IsNeedMore(o.ret) THEN acc
         ELSE IF o.ret.kind = "Panic" THEN Append(acc, o.ret)
         ELSE BatchRun(o.state, mx, o.buf, Append(acc, o.ret)))

\* C5: fragmentation independence. When the bytes received so far fit in max
\* and the last call asked for more bytes (or the run ended), the commands and
\* errors returned so far are those of a fresh parser given the same bytes in
\* one append.
C5_FragmentationIndependent ==
    (call.active /\ (IsNeedMore(call.ret) \/ Panicked) /\ arrived <= max)
        => Rets = BatchRun(StCommand, max, TakeFront(stream, arrived), << >>)

\* A command that arrived in fragments of at most MaxChunk bytes has been
\* returned, and the call after it keeps a partial line and asks for more.
C5_Witness ==
    /\ bulk = 0
    /\ call.active
    /\ IsNeedMore(call.ret)
    /\ arrived <= max
    /\ Len(results) >= 1
    /\ IsCommandAt(1)
    /\ buf # << >>
    /\ buf = call.buf0

\* C6: a call that starts with more than max bytes in the buffer, in any state,
\* empties the buffer, resets the state to Command and returns TooLong.
C6_OverfullBufferCleared ==
    (call.active /\ Len(call.buf0) > max)
        => /\ buf = << >>
           /\ state = StCommand
           /\ IsTooLong(call.ret)

\* A call started in the Bdat state with more than max bytes in the buffer.
C6_Witness ==
    /\ call.active
    /\ Len(call.buf0) > max
    /\ call.state0.tag = "Bdat"

\* C7: after every call that returns, the buffer holds at most max bytes.
C7_BufferWithinMax ==
    (call.active /\ ~Panicked) => Len(buf) <= max

\* A call that found more than max bytes in the buffer has returned.
C7_Witness ==
    /\ call.active
    /\ ~Panicked
    /\ Len(call.buf0) > max
    /\ call.state0 = StCommand

\* C8: whenever a call returns TooLong, the state after it is Command.
C8_TooLongResetsState ==
    (call.active /\ IsTooLong(call.ret)) => state = StCommand

\* TooLong came from a DATA line: the call began in the Data state with a
\* buffer within max.
C8_Witness ==
    /\ call.active
    /\ IsTooLong(call.ret)
    /\ call.state0 = StData
    /\ Len(call.buf0) <= max

\* The position of the first CRLF of the buffer the last call was given
FirstCRLF == Finder_find(CRLF, call.buf0)

\* C9: in the Command state, a line of exactly 510 bytes before its CRLF is
\* handed to the single-command parser; a line of 511 bytes or more makes the
\* call return TooLong with nothing handed to the single-command parser.
C9_CommandLineLimit ==
    (call.active /\ call.state0 = StCommand /\ Len(call.buf0) <= max /\ IsSome(FirstCRLF))
        => /\ Unwrap(FirstCRLF) = 510
                => /\ Len(call.handed) >= 1
                   /\ call.handed[1] = TakeFront(call.buf0, 510)
                   /\ ~IsTooLong(call.ret)
           /\ Unwrap(FirstCRLF) >= 511
                => /\ IsTooLong(call.ret)
                   /\ call.handed = << >>

\* A line of exactly 510 bytes was handed to the single-command parser.
C9_Witness ==
    /\ call.active
    /\ call.state0 = StCommand
    /\ Len(call.handed) = 1
    /\ Len(call.handed[1]) = 510

\* A line of more than 510 bytes, its CRLF, then NOOP and its CRLF
IsLongLineThenNoop(b) == \E n \in {511, 520} : b = Filler(n) \o CRLF \o w_NOOP

\* C10: recovery after an over-long command line. Once a line of more than 510
\* bytes with its CRLF, followed by NOOP and its CRLF, has gone through a
\* parser whose max it fits in, the calls have returned exactly TooLong and
\* then the command Noop.
C10_RecoveryAfterLongLine ==
    (/\ IsLongLineThenNoop(stream)
     /\ Len(stream) <= max
     /\ arrived = Len(stream)
     /\ call.active
     /\ IsNeedMore(call.ret)
     /\ buf = << >>)
        => Rets = << Err("TooLong"), Ok(Some([tag |-> "Noop"])) >>

\* The lines of a DATA body: the pieces between its CRLFs, the last one included
RECURSIVE BodyLines(_)
BodyLines(payload) ==
    LET f == Finder_find(CRLF, payload)
    IN  IF IsNone(f) THEN << payload >>
        ELSE << TakeFront(payload, Unwrap(f)) >> \o BodyLines(DropFront(payload, Unwrap(f) + 2))

\* The position of the first CRLF "." CRLF of the buffer the last call was given
FirstTerminator == Finder_find(CRLFDotCRLF, call.buf0)

\* C11: in the Data state every line of a complete body, the last one before
\* the terminator included, is held to 998 bytes: a body whose lines are all at
\* most 998 bytes comes back as Data, a body with a line of 999 bytes or more
\* makes the call return TooLong.
C11_EveryDataLineChecked ==
    (call.active /\ call.state0 = StData /\ Len(call.buf0) <= max /\ IsSome(FirstTerminator))
        => IF \E i \in DOMAIN BodyLines(TakeFront(call.buf0, Unwrap(FirstTerminator))) :
                 Len(BodyLines(TakeFront(call.buf0, Unwrap(FirstTerminator)))[i]) >= 999
           THEN IsTooLong(call.ret)
           ELSE IsCommand(call.ret) /\ Returned_command.tag = "Data"

\* The last call handed over one line, a BDAT line announcing more than mx bytes
HandedOversizeBdat(mx) ==
    /\ Len(call.handed) = 1
    /\ Bind(Command_try_from(call.handed[1]), LAMBDA r :
            IsOk(r) /\ r.val.tag = "Bdat" /\ r.val.bdat.size > mx)

\* The size announced by the BDAT line the last call handed over
HandedBdatSize == Command_try_from(call.handed[1]).val.bdat.size

\* C12: a BDAT command announcing more than max bytes is rejected: the call
\* returns TooLong, delivers no payload, skips at most `size` bytes after the
\* command line, and leaves the state Command.
C12_OversizeBdatRejected ==
    (call.active /\ call.state0 = StCommand /\ Len(call.buf0) <= max /\ HandedOversizeBdat(max))
        => /\ IsTooLong(call.ret)
           /\ state = StCommand
           /\ Len(Removed) <= Len(call.handed[1]) + 2 + HandedBdatSize

\* The last call went through the Bdat state: it began there, or it began in
\* the Command state and handed over one line that parses as BDAT
WentThroughBdat ==
    /\ call.active
    /\ Len(call.buf0) <= max
    /\ \/ call.state0.tag = "Bdat"
       \/ /\ call.state0 = StCommand
          /\ Len(call.handed) = 1
          /\ Bind(Command_try_from(call.handed[1]), LAMBDA r : IsOk(r) /\ r.val.tag = "Bdat")

\* The BDAT line of that chunk: handed over by this call, or removed (with its
\* CRLF) by the earlier call that entered the Bdat state
BdatLine ==
    IF call.state0.tag = "Bdat" THEN TakeFront(call.pend0, Len(call.pend0) - 2)
    ELSE call.handed[1]

\* The buffer as the Bdat state of the last call found it
BdatBuf ==
    IF call.state0.tag = "Bdat" THEN call.buf0
    ELSE DropFront(call.buf0, Len(call.handed[1]) + 2)

\* What the Bdat state does with a chunk announced as a (size, last) and the
\* buffer b, according to the claim
BdatStateAsClaimed(a, b) ==
    IF Len(b) < a.size
    THEN /\ IsNeedMore(call.ret)
         /\ state = [tag |-> "Bdat", size |-> a.size, last |-> a.last]
         /\ buf = b
    ELSE /\ IsCommand(call.ret)
         /\ Returned_command =
               [tag |-> "Bdat",
                bdat |-> [size |-> a.size, last |-> a.last, payload |-> TakeFront(b, a.size)]]
         /\ state = StCommand
         /\ buf = DropFront(b, a.size)

\* C13: in the Bdat state with size <= max, the call returns need-more-bytes
\* and stays in the Bdat state while the buffer holds fewer than size bytes;
\* otherwise it returns Bdat with the size and last announced on the BDAT line
\* and the first size bytes of the buffer as payload, removes exactly those
\* bytes, and the state becomes Command.
C13_BdatChunk ==
    WentThroughBdat
        => Bind(Command_try_from(BdatLine), LAMBDA r :
                /\ IsOk(r)
                /\ r.val.tag = "Bdat"
                /\ r.val.bdat.size <= max => BdatStateAsClaimed(r.val.bdat, BdatBuf))

\* A call that began in the Bdat state returned the chunk with its payload,
\* leaving later bytes in the buffer.
C13_Witness ==
    /\ call.active
    /\ call.state0.tag = "Bdat"
    /\ IsCommand(call.ret)
    /\ Returned_command.tag = "Bdat"
    /\ Len(Returned_command.bdat.payload) = 3
    /\ buf # << >>

\* 'BDAT 0' and 'BDAT 0 LAST'
l_BDAT0 == <<66, 68, 65, 84, 32, 48>>
l_BDAT0LAST == <<66, 68, 65, 84, 32, 48, 32, 76, 65, 83, 84>>

\* C14: BDAT 0, with or without LAST, is accepted: the call that consumes the
\* command line returns Bdat with size 0 and an empty payload (last telling
\* whether LAST was given), removes the line and its CRLF and no byte after
\* them, and does not return need-more-bytes.
C14_BdatZero ==
    (/\ call.active
     /\ call.state0 = StCommand
     /\ Len(call.buf0) <= max
     /\ Len(call.handed) = 1
     /\ call.handed[1] \in {l_BDAT0, l_BDAT0LAST})
        => /\ call.ret = Ok(Some([tag |-> "Bdat",
                                  bdat |-> [size |-> 0,
                                            last |-> (call.handed[1] = l_BDAT0LAST),
                                            payload |-> << >>]]))
           /\ call.buf0 = call.handed[1] \o CRLF \o buf
           /\ state = StCommand

\* 'BDAT 0' without LAST was consumed with the bytes of a later line already
\* in the buffer.
C14_Witness ==
    /\ call.active
    /\ call.state0 = StCommand
    /\ Len(call.handed) = 1
    /\ call.handed[1] = l_BDAT0
    /\ IsCommand(call.ret)
    /\ buf # << >>

\* The last call went through the Data state: it began there, or it began in
\* the Command state and handed over one line that parses as DATA
WentThroughData ==
    /\ call.active
    /\ Len(call.buf0) <= max
    /\ \/ call.state0 = StData
       \/ /\ call.state0 = StCommand
          /\ Len(call.handed) = 1
          /\ Bind(Command_try_from(call.handed[1]), LAMBDA r : IsOk(r) /\ r.val.tag = "Data")

\* The buffer as the Data state of the last call found it: the bytes after the
\* DATA line's CRLF
DataBuf ==
    IF call.state0 = StData THEN call.buf0
    ELSE DropFront(call.buf0, Len(call.handed[1]) + 2)

\* Every line of the body, the last one included, is within the DATA line limit
AllLinesWithin(payload) ==
    \A i \in DOMAIN BodyLines(payload) : Len(BodyLines(payload)[i]) <= 998

\* The body b[1..pos] is complete: what the call does with it
DataFramed(b, pos) ==
    /\ buf = DropFront(b, pos + 5)
    /\ state = StCommand
    /\ \/ call.ret = Ok(Some([tag |-> "Data", payload |-> TakeFront(b, pos)]))
       \/ IsTooLong(call.ret) /\ ~AllLinesWithin(TakeFront(b, pos))

\* C15: DATA framing. After a DATA line, once the bytes after its CRLF hold a
\* CRLF "." CRLF, the call returns Data whose payload is, verbatim, the bytes
\* before the first such terminator (TooLong only if a line is over the limit),
\* removes the body and the 5-byte terminator, and the state is Command again;
\* until then it asks for more and removes nothing; the result that follows a
\* Data command is built from the bytes right after the terminator.
C15_DataFraming ==
    /\ WentThroughData
          => LET f == Finder_find(<<13, 10, 46, 13, 10>>, DataBuf)
             IN  IF IsNone(f)
                 THEN IsNeedMore(call.ret) /\ state = StData /\ buf = DataBuf
                 ELSE DataFramed(DataBuf, Unwrap(f))
    /\ \A i \in DOMAIN results :
          (IsCommandAt(i) /\ Unwrap(results[i].ret.val).tag = "Data" /\ i + 1 \in DOMAIN results)
              => results[i + 1].from = results[i].to

\* A body of two lines, the second dot-stuffed, came back verbatim, and the
\* command after its terminator has been returned.
C15_Witness ==
    /\ Len(results) = 2
    /\ results[1].ret = Ok(Some([tag |-> "Data", payload |-> <<97, 13, 10, 46, 46, 98>>]))
    /\ results[2].ret = Ok(Some([tag |-> "Noop"]))

\* The errors of the single-command parser the claim lists
CommandErrors ==
    {"InvalidSyntax", "InvalidParameter", "MissingParameter", "UnexpectedParameter",
     "CommandNotImplemented", "Empty"}

\* The single-command parser rejects `line` with one of those errors
Rejects(line) ==
    Bind(Command_try_from(line), LAMBDA r : r.kind = "Err" /\ r.err \in CommandErrors)

\* bytes is one line and its CRLF, and the single-command parser answers the
\* line with ret
IsRejectedLine(bytes, ret) ==
    /\ Len(bytes) >= 2
    /\ Finder_find(CRLF, bytes) = Some(Len(bytes) - 2)
    /\ Command_try_from(TakeFront(bytes, Len(bytes) - 2)) = ret

\* C16: when the single-command parser rejects a command line, the call returns
\* that error, has removed the whole line and its CRLF and nothing more, and the
\* state stays Command; the result after it is built from the bytes right after
\* that CRLF; and HELO -bad.example then RSET give InvalidSyntax then Rset.
C16_RejectedLineConsumed ==
    /\ (/\ call.active
        /\ call.state0 = StCommand
        /\ Len(call.buf0) <= max
        /\ Len(call.handed) = 1
        /\ Rejects(call.handed[1]))
          => /\ call.ret = Command_try_from(call.handed[1])
             /\ call.buf0 = call.handed[1] \o CRLF \o buf
             /\ state = StCommand
    /\ \A i \in DOMAIN results :
          (results[i].ret.kind = "Err" /\ results[i].ret.err \in CommandErrors)
              => /\ IsRejectedLine(SubSeq(stream, results[i].from + 1, results[i].to),
                                   results[i].ret)
                 /\ i + 1 \in DOMAIN results => results[i + 1].from = results[i].to
    /\ (/\ stream = w_HELObad \o w_RSET
        /\ Len(stream) <= max
        /\ arrived = Len(stream)
        /\ call.active
        /\ IsNeedMore(call.ret)
        /\ buf = << >>)
          => Rets = << Err("InvalidSyntax"), Ok(Some([tag |-> "Rset"])) >>

\* HELO -bad.example was rejected with InvalidSyntax and the RSET after it has
\* been returned.
C16_Witness ==
    /\ stream = w_HELObad \o w_RSET
    /\ Len(results) = 2
    /\ results[1].ret = Err("InvalidSyntax")
    /\ results[2].ret = Ok(Some([tag |-> "Rset"]))

InBody(st) == st.tag \in {"Data", "Bdat"}

\* The last call handed over one line that parses as DATA or BDAT
HandedBodyCommand ==
    /\ call.state0 = StCommand
    /\ Len(call.handed) = 1
    /\ Bind(Command_try_from(call.handed[1]), LAMBDA r : IsOk(r) /\ r.val.tag \in {"Data", "Bdat"})

\* C17: a DATA or BDAT command is returned only together with its body. A call
\* that returns leaves the parser inside a body only with need-more-bytes; a
\* call that is given a DATA/BDAT line, or begins inside a body, returns
\* need-more-bytes (still inside the body), TooLong (state Command), or the
\* Data/Bdat command whose bytes are the command line, its CRLF and the whole
\* body; the body is never a result of its own and the command never comes
\* without it.
C17_BodyWithItsCommand ==
    (call.active /\ ~Panicked)
        => /\ InBody(state) => IsNeedMore(call.ret)
           /\ (InBody(call.state0) \/ HandedBodyCommand)
                 => \/ IsNeedMore(call.ret) /\ InBody(state)
                    \/ IsTooLong(call.ret) /\ state = StCommand
                    \/ /\ IsCommand(call.ret)
                       /\ InBody(Returned_command)
                       /\ state = StCommand
           /\ (IsCommand(call.ret) /\ InBody(Returned_command))
                 => /\ IsFrameOf(call.pend0 \o Removed, Returned_command)
                    /\ InBody(call.state0) \/ HandedBodyCommand

\* A call that began inside a BDAT chunk, with a part of the payload in the
\* buffer, asked for more and stayed inside the chunk.
C17_Witness ==
    /\ call.active
    /\ call.state0.tag = "Bdat"
    /\ call.buf0 # << >>
    /\ IsNeedMore(call.ret)
    /\ state = call.state0

\* C18: every call of parse terminates after at most two state dispatches of
\* its loop, in exactly one of: a command, need-more-bytes, or an error.
C18_TerminatesInTwoDispatches ==
    call.active
        => /\ call.steps <= 2
           /\ \/ IsCommand(call.ret)
              \/ IsNeedMore(call.ret)
              \/ call.ret.kind = "Err" /\ call.ret.err \in Error

\* The two parsers were last called in the same state on buffers of the same
\* content (max is the same for both)
SameCall ==
    /\ call.active
    /\ twin.active
    /\ call.state0 = twin.state0
    /\ call.buf0 = twin.buf0

PairsAt(b) == {i \in 1..(Len(b) - 1) : b[i] = 13 /\ b[i + 1] = 10}

\* C20: only CR LF ends a command line. In the Command state a buffer with no
\* CR LF pair, whatever bare CR or LF bytes it holds, gives need-more-bytes and
\* is left as it is; otherwise the line handed to the single-command parser is
\* everything before the first CR LF pair, bare CR and LF bytes included
\* (unless that line is over the command line limit).
C20_OnlyCRLFEndsLine ==
    (call.active /\ call.state0 = StCommand /\ Len(call.buf0) <= max)
        => IF PairsAt(call.buf0) = {}
           THEN /\ IsNeedMore(call.ret)
                /\ buf = call.buf0
                /\ call.handed = << >>
                /\ state = StCommand
           ELSE MinOf(PairsAt(call.buf0)) - 1 <= 510
                    => /\ Len(call.handed) >= 1
                       /\ call.handed[1] = TakeFront(call.buf0, MinOf(PairsAt(call.buf0)) - 1)

\* A line with a bare CR and a bare LF inside was handed over whole.
C20_Witness ==
    /\ call.active
    /\ call.state0 = StCommand
    /\ Len(call.handed) = 1
    /\ call.handed[1] = <<78, 79, 13, 79, 80, 10, 82, 83, 69, 84>>

\* ---------------------------------------------------------------------------
\* The serializer (src/types/serialize.rs).  Email, Domain, Address, XText and
\* Base64 are AsRef<[u8]>: the blanket impl appends their bytes as they are.
\* ---------------------------------------------------------------------------
\* itoa::Buffer::format, and {:x} of core::fmt: the digits of n in the radix,
\* most significant first, no leading zero, lower-case letters
RECURSIVE fmt_radix(_, _)
fmt_radix(n, radix) ==
    LET d == n % radix
        c == IF d < 10 THEN 48 + d ELSE 87 + d
    IN  IF n < radix THEN << c >> ELSE Append(fmt_radix(n \div radix, radix), c)

\* The numbers of an address in the radix, joined by the separator
RECURSIVE fmt_join(_, _, _)
fmt_join(groups, radix, sep) ==
    IF Len(groups) = 0 THEN << >>
    ELSE IF Len(groups) = 1 THEN fmt_radix(groups[1], radix)
    ELSE fmt_radix(groups[1], radix) \o << sep >> \o fmt_join(DropFront(groups, 1), radix, sep)

\* Display of core::net::IpAddr: a dotted quad; for IPv6 the IPv4-mapped form
\* ::ffff:a.b.c.d, else the first longest run of two or more zero groups
\* written as "::"
IpAddr_fmt(ip) ==
    IF ip.v = 4 THEN fmt_join(ip.addr, 10, 46)
    ELSE LET g      == ip.addr
             IsRun(s, l) == s + l - 1 <= 8 /\ \A k \in s..(s + l - 1) : g[k] = 0
             lens   == {l \in 1..8 : \E s \in 1..8 : IsRun(s, l)}
             longest == IF lens = {} THEN 0 ELSE CHOOSE l \in lens : \A m \in lens : m <= l
             start  == IF longest = 0 THEN 0
                       ELSE MinOf({s \in 1..8 : IsRun(s, longest)})
         IN  IF (\A k \in 1..5 : g[k] = 0) /\ g[6] = 65535
             THEN <<58, 58, 102, 102, 102, 102, 58>>
                  \o fmt_join(<< g[7] \div 256, g[7] % 256, g[8] \div 256, g[8] % 256 >>, 10, 46)
             ELSE IF longest > 1
                  THEN fmt_join(SubSeq(g, 1, start - 1), 16, 58)
                       \o <<58, 58>>
                       \o fmt_join(SubSeq(g, start + longest, 8), 16, 58)
                  ELSE fmt_join(g, 16, 58)

\* impl ToBytes for Host: write!(buf, "[{ip}]") uses the Display of IpAddr
Host_to_bytes(host) ==
    CASE host.tag = "Domain"  -> host.domain.domain
      [] host.tag = "Ip"      -> <<91>> \o IpAddr_fmt(host.ip) \o <<93>>
      [] host.tag = "Address" -> host.address

\* impl ToBytes for Bdat
Bdat_to_bytes(b) ==
    b_BDAT \o << SP >> \o fmt_radix(Len(b.payload), 10)
    \o (IF b.last THEN << SP >> \o b_LAST ELSE << >>)
    \o CRLF \o b.payload

\* impl ToBytes for ReversePath
ReversePath_to_bytes(from) ==
    <<60>> \o (IF from.tag = "Null" THEN << >> ELSE from.email.email) \o <<62>>

\* impl ToBytes for Ret
Ret_to_bytes(ret) ==
    b_RET \o <<61>> \o (IF ret = "Full" THEN b_FULL ELSE b_HDRS)

\* impl ToBytes for EnvId
EnvId_to_bytes(envid) == b_ENVID \o <<61>> \o envid.xtext

\* impl ToBytes for Auth
Auth_to_bytes(auth) ==
    b_AUTH \o <<61>> \o (IF auth.tag = "Anonymous" THEN b_NullPath ELSE auth.xtext.xtext)

\* impl ToBytes for Body
Body_to_bytes(body) ==
    b_BODY \o <<61>>
    \o (CASE body = "SevenBit"     -> b_7BIT
          [] body = "EightBitMime" -> b_8BITMIME
          [] body = "BinaryMime"   -> b_BINARYMIME)

\* impl ToBytes for Mail: its own CRLF ends the output
Mail_to_bytes(m) ==
    b_MAIL \o << SP >> \o b_FROM \o ReversePath_to_bytes(m.from)
    \o (IF IsSome(m.size)
        THEN << SP >> \o b_SIZE \o <<61>> \o fmt_radix(Unwrap(m.size), 10) ELSE << >>)
    \o (IF IsSome(m.ret) THEN << SP >> \o Ret_to_bytes(Unwrap(m.ret)) ELSE << >>)
    \o (IF IsSome(m.envid) THEN << SP >> \o EnvId_to_bytes(Unwrap(m.envid)) ELSE << >>)
    \o (IF IsSome(m.auth) THEN << SP >> \o Auth_to_bytes(Unwrap(m.auth)) ELSE << >>)
    \o (IF IsSome(m.body) THEN << SP >> \o Body_to_bytes(Unwrap(m.body)) ELSE << >>)
    \o CRLF

\* Variant: DELAY is never written
Notify_names_without_delay(flags) ==
    (IF "FAILURE" \in flags THEN << b_FAILURE >> ELSE << >>)
    \o (IF "SUCCESS" \in flags THEN << b_SUCCESS >> ELSE << >>)

\* impl ToBytes for Notify: self.iter() yields the flags that are set in the
\* order of their declaration, DELAY, FAILURE, SUCCESS
Notify_names(flags) ==
    (IF "DELAY" \in flags THEN << b_DELAY >> ELSE << >>)
    \o (IF "FAILURE" \in flags THEN << b_FAILURE >> ELSE << >>)
    \o (IF "SUCCESS" \in flags THEN << b_SUCCESS >> ELSE << >>)

RECURSIVE JoinNames(_)
JoinNames(names) ==
    IF Len(names) = 0 THEN << >>
    ELSE IF Len(names) = 1 THEN names[1]
    ELSE names[1] \o <<44>> \o JoinNames(DropFront(names, 1))

Notify_to_bytes(flags) ==
    b_NOTIFY \o <<61>>
    \o (IF flags = {} THEN b_NEVER ELSE JoinNames(Notify_names(flags)))

\* impl ToBytes for Rcpt: the address as it is, then CRLF; orcpt and notify
\* are not read
Rcpt_to_bytes(r) == b_RCPT \o << SP >> \o b_TO \o r.to.email \o CRLF

\* impl ToBytes for Mechanism
Mechanism_to_bytes(mechanism) ==
    CASE mechanism = "Plain" -> Ok(<<80, 76, 65, 73, 78>>)
      [] mechanism = "Login" -> Ok(<<76, 79, 71, 73, 78>>)
      [] OTHER               -> Panic

\* impl ToBytes for Command: what each arm appends; Bdat returns from the
\* function, every other arm falls through to the final CRLF; todo!() panics
Command_arm(c) ==
    CASE c.tag = "Helo" -> Ok(Host_to_bytes(c.host))
      [] c.tag = "Ehlo" -> Ok(Host_to_bytes(c.host))
      [] c.tag = "Mail" -> Ok(Mail_to_bytes(c.mail))
      [] c.tag = "Rcpt" -> Ok(Rcpt_to_bytes(c.rcpt))
      [] c.tag = "Data" -> Ok(b_DATA \o CRLF \o c.payload \o CRLF \o <<46>>)
      [] c.tag = "Bdat" -> Ok(Bdat_to_bytes(c.bdat))
      [] c.tag = "Rset" -> Ok(b_RSET)
      [] c.tag = "Quit" -> Ok(b_QUIT)
      [] c.tag = "Noop" -> Ok(b_NOOP)
      [] c.tag = "Auth" ->
            Bind(Mechanism_to_bytes(c.mechanism), LAMBDA mech :
                 IF ~IsOk(mech) THEN mech
                 ELSE IF IsSome(c.initial_response)
                      THEN Ok(mech.val \o << SP >> \o Unwrap(c.initial_response))
                      ELSE mech)
      [] c.tag \in {"Vrfy", "Expn", "Help", "StartTls"} -> Panic

Command_to_bytes(c) ==
    Bind(Command_arm(c), LAMBDA arm :
         IF ~IsOk(arm) THEN arm
         ELSE IF c.tag = "Bdat" THEN arm
         ELSE Ok(arm.val \o CRLF))

\* ---------------------------------------------------------------------------
\* A caller that serializes a command and hands the bytes to a new Parser.
\* The commands are the ones a Parser returns for the frames below, and the
\* variants of Command that only a caller can build.
\* ---------------------------------------------------------------------------
t_Email == <<97, 64, 98, 46, 99>>                                     \* a@b.c
t_Other == <<100, 64, 101, 46, 102>>                                  \* d@e.f
t_XText == <<120, 43, 50, 66>>                                        \* x+2B
t_Domain == <<98, 46, 99>>                                            \* b.c
t_DomainDot == <<98, 46>>                                             \* b.
t_V4 == <<91, 49, 46, 50, 46, 51, 46, 52, 93>>                        \* [1.2.3.4]
t_V6Loop == <<91, 73, 80, 118, 54, 58, 58, 58, 49, 93>>               \* [IPv6:::1]
t_V6Doc ==
    <<91, 73, 80, 118, 54, 58, 50, 48, 48, 49, 58, 100, 98, 56, 58, 58, 93>>  \* [IPv6:2001:db8::]
t_V6Runs ==
    <<91, 73, 80, 118, 54, 58, 49, 58, 48, 58, 48, 58, 50, 58, 58, 51, 93>>   \* [IPv6:1:0:0:2::3]
t_V6Mapped ==
    <<91, 73, 80, 118, 54, 58, 58, 58, 102, 102, 102, 102, 58,
      49, 46, 50, 46, 51, 46, 52, 93>>                                \* [IPv6:::ffff:1.2.3.4]
t_V6Full ==
    <<91, 73, 80, 118, 54, 58, 49, 58, 50, 58, 51, 58, 52, 58, 53, 58,
      54, 58, 55, 58, 56, 93>>                                        \* [IPv6:1:2:3:4:5:6:7:8]
t_Literal == <<91, 120, 58, 121, 93>>                                 \* [x:y]
t_Hosts == {t_Domain, t_DomainDot, t_V4, t_V6Loop, t_V6Doc, t_V6Runs, t_V6Mapped,
            t_V6Full, t_Literal}

\* Nothing, or a space and the parameter
Opt(p) == {<< >>, << SP >> \o p}

MailFrames ==
    {b_MAIL \o << SP >> \o b_FROM \o <<60>> \o f \o <<62>> \o s \o r \o e \o a \o bd \o CRLF :
        f \in {<< >>, t_Email},
        s \in Opt(<<83, 73, 90, 69, 61, 49, 48>>),                    \* SIZE=10
        r \in Opt(b_RET \o <<61>> \o b_HDRS),
        e \in Opt(b_ENVID \o <<61>> \o t_XText),
        a \in Opt(b_AUTH \o <<61>> \o b_NullPath) \cup Opt(b_AUTH \o <<61>> \o t_XText),
        bd \in Opt(b_BODY \o <<61>> \o b_8BITMIME)}

RcptFrames ==
    {b_RCPT \o << SP >> \o b_TO \o <<60>> \o t_Email \o <<62>> \o n \o o \o CRLF :
        n \in Opt(b_NOTIFY \o <<61>> \o b_NEVER)
              \cup Opt(b_NOTIFY \o <<61>> \o b_SUCCESS \o <<44>> \o b_DELAY),
        o \in Opt(b_ORCPT \o <<61>> \o t_Other)}

SourceFrames ==
    {b_HELO \o << SP >> \o t_Domain \o CRLF, b_HELO \o << SP >> \o t_DomainDot \o CRLF}
    \cup {b_EHLO \o << SP >> \o h \o CRLF : h \in t_Hosts}
    \cup MailFrames \cup RcptFrames
    \cup {w_DATA \o CRLFDotCRLF, w_DATA \o w_Body, w_DATA \o w_Stuffed \o CRLFDotCRLF,
          w_BDAT0n, w_BDAT0, w_BDAT3 \o w_Chunk, w_RSET, w_NOOP,
          b_QUIT \o CRLF}

\* Parser::new(max) for the largest max of the model
RoundTripMax == CHOOSE m \in MaxChoices : \A n \in MaxChoices : n <= m

ParsedCommands ==
    {Unwrap(Parser_parse(StCommand, RoundTripMax, f).ret.val) : f \in SourceFrames}

BuiltCommands ==
    {[tag |-> "Vrfy"], [tag |-> "Expn"], [tag |-> "Help"], [tag |-> "StartTls"]}
    \cup {[tag |-> "Auth", mechanism |-> m, initial_response |-> ir] :
             m \in {"Plain", "Login", "CramMd5"}, ir \in {None, Some(<<81, 81, 61, 61>>)}}

SerInit ==
    /\ probe \in {[kind |-> "Command", val |-> c, wire |-> None] :
                     c \in ParsedCommands \cup BuiltCommands}
    /\ stream = << >>
    /\ bulk = 0
    /\ max = RoundTripMax
    /\ arrived = 0
    /\ buf = << >>
    /\ state = StCommand
    /\ call = NoCall
    /\ pend = << >>
    /\ off = 0
    /\ results = << >>
    /\ twin = NoTwin

\* let wire = command.to_bytes(); the bytes are what the peer will send, in
\* one fragment
Serialize ==
    /\ probe.kind = "Command"
    /\ IsNone(probe.wire)
    /\ Bind(Command_to_bytes(probe.val), LAMBDA w :
            /\ probe' = [probe EXCEPT !.wire = Some(w)]
            /\ stream' = IF IsOk(w) THEN w.val ELSE << >>
            /\ bulk' = IF IsOk(w) THEN Len(w.val) ELSE 0)
    /\ UNCHANGED << arrived, buf, state, max, call, pend, off, results, twin >>

SerNext ==
    \/ Serialize
    \/ \E k \in (1..MaxChunk) \cup {bulk} : Extend(k)
    \/ Parse

SpecSerialize == SerInit /\ [][SerNext]_vars

\* ---------------------------------------------------------------------------
\* Properties of the serializer
\* ---------------------------------------------------------------------------
\* The serializer returned these bytes for the command under study
Wire == Unwrap(probe.wire).val

Serialized == probe.kind = "Command" /\ IsSome(probe.wire)

\* The new Parser has been called with the whole output in its buffer
FedWhole ==
    /\ Serialized
    /\ IsOk(Unwrap(probe.wire))
    /\ arrived = Len(stream)
    /\ call.active

\* C21: the bytes the serializer produces for a command the parser can return,
\* fed to a new Parser, come back as that very command, and the call that
\* returns it leaves the buffer empty.
C21_RoundTrip ==
    (Serialized /\ probe.val \in ParsedCommands) =>
        /\ IsOk(Unwrap(probe.wire))
        /\ FedWhole =>
              /\ Len(results) >= 1
              /\ results[1].ret = Ok(Some(probe.val))
              /\ results[1].to = Len(stream)

\* The verb of a command's canonical wire form
VerbOf(c) ==
    CASE c.tag = "Helo" -> b_HELO
      [] c.tag = "Ehlo" -> b_EHLO
      [] c.tag = "Mail" -> b_MAIL
      [] c.tag = "Rcpt" -> b_RCPT
      [] c.tag = "Data" -> b_DATA
      [] c.tag = "Bdat" -> b_BDAT
      [] c.tag = "Rset" -> b_RSET
      [] c.tag = "Quit" -> b_QUIT
      [] c.tag = "Noop" -> b_NOOP
      [] c.tag = "Vrfy" -> b_VRFY
      [] c.tag = "Expn" -> b_EXPN
      [] c.tag = "Help" -> b_HELP
      [] c.tag = "StartTls" -> <<83, 84, 65, 82, 84, 84, 76, 83>>
      [] c.tag = "Auth" -> b_AUTH

StartsWith(b, prefix) ==
    Len(b) >= Len(prefix) /\ TakeFront(b, Len(prefix)) = prefix

\* The line begins with the verb and its only CRLF is its last two bytes
IsOneLine(b, verb) ==
    /\ StartsWith(b, verb)
    /\ Finder_find(CRLF, b) = Some(Len(b) - 2)

\* The decimal number n, written independently of the serializer
RECURSIVE Decimal(_)
Decimal(n) ==
    IF n < 10 THEN << 48 + n >> ELSE Append(Decimal(n \div 10), 48 + (n % 10))

\* C22: the output for a command other than DATA and BDAT is one line that
\* begins with the verb and ends with the only CRLF; DATA is written as
\* DATA CRLF payload CRLF . CRLF; BDAT as BDAT size [LAST] CRLF payload with
\* nothing after it, the size being the length of the payload.
C22_SerializerFraming ==
    Serialized =>
        /\ IsOk(Unwrap(probe.wire))
        /\ CASE probe.val.tag = "Data" ->
                    Wire = b_DATA \o CRLF \o probe.val.payload \o CRLFDotCRLF
             [] probe.val.tag = "Bdat" ->
                    Wire = b_BDAT \o << SP >> \o Decimal(Len(probe.val.bdat.payload))
                           \o (IF probe.val.bdat.last THEN << SP >> \o b_LAST ELSE << >>)
                           \o CRLF \o probe.val.bdat.payload
             [] OTHER -> IsOneLine(Wire, VerbOf(probe.val))

\* C23: an RCPT command is written as RCPT TO:<email>, then NOTIFY if it is
\* set, then ORCPT if it is set, the address of ORCPT written after "ORCPT=",
\* with or without angle brackets; nothing that is set is left out.
C23_RcptParametersWritten ==
    (Serialized /\ probe.val.tag = "Rcpt") =>
        /\ IsOk(Unwrap(probe.wire))
        /\ LET r      == probe.val.rcpt
               head   == b_RCPT \o << SP >> \o b_TO \o <<60>> \o r.to.email \o <<62>>
               notify == IF IsNone(r.notify) THEN << >>
                         ELSE << SP >> \o b_NOTIFY \o <<61>>
                              \o (IF Unwrap(r.notify) = {} THEN b_NEVER
                                  ELSE JoinNames(Notify_names(Unwrap(r.notify))))
               orcpts == IF IsNone(r.orcpt) THEN {<< >>}
                         ELSE {<< SP >> \o b_ORCPT \o <<61>> \o Unwrap(r.orcpt).email,
                               << SP >> \o b_ORCPT \o <<61, 60>> \o Unwrap(r.orcpt).email
                               \o <<62>>}
           IN  \E o \in orcpts : Wire = head \o notify \o o \o CRLF

\* ---------------------------------------------------------------------------
\* XText::encode, XText::decode (src/types/mod.rs)
\* ---------------------------------------------------------------------------
\* fn encode_hex: called with byte >> 4 and byte & 0x0F only, both below 16
encode_hex(n) == IF n <= 9 THEN 48 + n ELSE 65 + (n - 10)

\* fn decode_hex: unreachable!() panics for a byte that is no hex digit
decode_hex(c) ==
    IF c >= 48 /\ c <= 57 THEN Ok(c - 48)
    ELSE IF c >= 97 /\ c <= 102 THEN Ok(c - 97 + 10)
    ELSE IF c >= 65 /\ c <= 70 THEN Ok(c - 65 + 10)
    ELSE Panic

\* Variant: '+' is taken for an xchar and left as it is
encode_byte_plain_plus(c) ==
    IF is_xchar(c) \/ c = 43 THEN << c >>
    ELSE << 43, encode_hex(c \div 16), encode_hex(c % 16) >>

\* The body of the for loop of XText::encode for one byte
encode_byte(c) ==
    IF is_xchar(c) THEN << c >>
    ELSE << 43, encode_hex(c \div 16), encode_hex(c % 16) >>

RECURSIVE XText_encode(_)
XText_encode(input) ==
    IF Len(input) = 0 THEN << >>
    ELSE encode_byte(input[1]) \o XText_encode(DropFront(input, 1))

\* The while loop of XText::decode_into, i being the 0-based index and out
\* what has been appended to buf
RECURSIVE XText_decode_into(_, _, _)
XText_decode_into(x, i, out) ==
    IF i >= Len(x) THEN Ok(out)
    ELSE IF i + 2 < Len(x) /\ x[i + 1] = 43
         THEN Bind(decode_hex(x[i + 2]), LAMBDA high :
              Bind(decode_hex(x[i + 3]), LAMBDA low :
                   IF ~IsOk(high) \/ ~IsOk(low) THEN Panic
                   ELSE XText_decode_into(x, i + 3,
                                          Append(out, (high.val * 16 + low.val) % 256))))
         ELSE XText_decode_into(x, i + 1, Append(out, x[i + 1]))

XText_decode(x) == XText_decode_into(x, 0, << >>)

\* ---------------------------------------------------------------------------
\* A caller of the value types: a Host, a Notify or raw bytes are encoded and
\* the encoding is parsed again; bytes are handed to XText::try_from and
\* lines to Command::try_from; a Tokens iterator is stepped.
\* ---------------------------------------------------------------------------
MaxBytes == 3
MaxParams == 3

SeqsUpTo(S, n) == UNION {[1..k -> S] : k \in 0..n}

\* NUL, LF, SP, '+', '=', 'A', 'a', '~', DEL, 0xFF
RawBytes == {0, 10, 32, 43, 61, 65, 97, 126, 127, 255}

\* SP, '+', '2', 'B', 'g'
XTextBytes == {32, 43, 50, 66, 103}

\* SP, ',', 'a'
TokenBytes == {32, 44, 97}

\* '-', '.', '_', 'a'
DomainBytes == {45, 46, 95, 97}

\* MAIL parameters as they are written, each with its field and with what
\* its value means; a line is given by the positions of its parameters here
ParamCases ==
    <<[text |-> <<83, 73, 90, 69, 61, 49>>, name |-> "size", out |-> Ok(1)],         \* SIZE=1
     [text |-> <<115, 105, 122, 101, 61, 50>>, name |-> "size", out |-> Ok(2)],     \* size=2
     [text |-> b_RET \o <<61>> \o b_FULL, name |-> "ret", out |-> Ok("Full")],
     [text |-> b_RET \o <<61>> \o b_HDRS, name |-> "ret", out |-> Ok("Headers")],
     [text |-> b_ENVID \o <<61>> \o t_XText, name |-> "envid",
      out |-> Ok([xtext |-> t_XText])],
     [text |-> b_AUTH \o <<61>> \o b_NullPath, name |-> "auth",
      out |-> Ok([tag |-> "Anonymous"])],
     [text |-> b_BODY \o <<61>> \o b_7BIT, name |-> "body", out |-> Ok("SevenBit")],
     [text |-> b_BODY \o <<61>> \o b_8BITMIME, name |-> "body", out |-> Ok("EightBitMime")],
     [text |-> <<83, 73, 90, 69, 61, 120>>, name |-> "size",
      out |-> Err("InvalidSyntax")],                                                \* SIZE=x
     [text |-> b_RET, name |-> "ret", out |-> Err("InvalidParameter")]>>            \* RET

\* The line MAIL FROM:<> followed by the parameters, a space before each
RECURSIVE SpacedParams(_)
SpacedParams(ps) ==
    IF Len(ps) = 0 THEN << >>
    ELSE << SP >> \o ParamCases[ps[1]].text \o SpacedParams(DropFront(ps, 1))

MailLine(ps) == b_MAIL \o << SP >> \o b_FROM \o b_NullPath \o SpacedParams(ps)

\* Lines whose first token is a reserved verb or no verb at all
ReservedLines ==
    {b_VRFY, <<118, 114, 102, 121>>, b_VRFY \o << SP, 97 >>,                        \* vrfy, VRFY a
     b_EXPN, <<69, 120, 112, 110>>, b_HELP, <<104, 101, 108, 112>>,                 \* Expn, help
     b_AUTH, <<97, 117, 116, 104>>, b_AUTH \o << SP >> \o <<80, 76, 65, 73, 78>>,   \* auth, AUTH PLAIN
     <<83, 84, 65, 82, 84, 84, 76, 83>>, <<115, 116, 97, 114, 116, 116, 108, 115>>, \* STARTTLS
     <<70, 79, 79>>, <<88, 72, 69, 76, 79, 32, 97>>}                                \* FOO, XHELO a

ValueProbes ==
    {[kind |-> "Host", host |-> Host_try_from(t).val, wire |-> None, back |-> None] :
        t \in t_Hosts}
    \cup {[kind |-> "Notify", flags |-> S, wire |-> None, back |-> None] :
             S \in SUBSET {"DELAY", "FAILURE", "SUCCESS"}}
    \cup {[kind |-> "Raw", raw |-> r, wire |-> None, back |-> None] :
             r \in SeqsUpTo(RawBytes, MaxBytes)}
    \cup {[kind |-> "XText", val |-> x, back |-> None] :
             x \in SeqsUpTo(XTextBytes, MaxBytes + 1)}
    \cup {[kind |-> "Line", val |-> MailLine(ps), params |-> ps, back |-> None] :
             ps \in SeqsUpTo(1..Len(ParamCases), MaxParams)}
    \cup {[kind |-> "Line", val |-> l, params |-> << >>, back |-> None] :
             l \in ReservedLines}
    \cup {[kind |-> "Tokens", val |-> b, delim |-> d, bytes |-> b, items |-> << >>] :
             b \in SeqsUpTo(TokenBytes, MaxBytes + 1), d \in {SP, 44}}
    \cup {[kind |-> "Domain", name |-> b, valid |-> None, parsed |-> None] :
             b \in SeqsUpTo(DomainBytes, MaxBytes + 2)}

ValuesInit ==
    /\ probe \in ValueProbes
    /\ stream = << >>
    /\ bulk = 0
    /\ max = RoundTripMax
    /\ arrived = 0
    /\ buf = << >>
    /\ state = StCommand
    /\ call = NoCall
    /\ pend = << >>
    /\ off = 0
    /\ results = << >>
    /\ twin = NoTwin

Unused == UNCHANGED << stream, bulk, arrived, buf, state, max, call, pend, off, results, twin >>

\* host.to_bytes(), notify.to_bytes(), XText::encode(&raw)
Encode ==
    /\ probe.kind \in {"Host", "Notify", "Raw"}
    /\ IsNone(probe.wire)
    /\ probe' = [probe EXCEPT !.wire =
                    Some(CASE probe.kind = "Host"   -> Host_to_bytes(probe.host)
                           [] probe.kind = "Notify" -> Notify_to_bytes(probe.flags)
                           [] probe.kind = "Raw"    -> XText_encode(probe.raw))]
    /\ Unused

\* Host::try_from(wire); Notify::try_from(the value after '='); XText::try_from
\* (wire) and the decode() of the XText that encode returned
Decode ==
    /\ probe.kind \in {"Host", "Notify", "Raw"}
    /\ IsSome(probe.wire)
    /\ IsNone(probe.back)
    /\ probe' = [probe EXCEPT !.back =
                    Some(CASE probe.kind = "Host"   -> Host_try_from(Unwrap(probe.wire))
                           [] probe.kind = "Notify" ->
                                 Notify_try_from(Unwrap(KeyValue(Unwrap(probe.wire)).value))
                           [] probe.kind = "Raw"    ->
                                 [valid   |-> XText_try_from(Unwrap(probe.wire)),
                                  decoded |-> XText_decode(Unwrap(probe.wire))])]
    /\ Unused

\* XText::try_from(bytes), Command::try_from(line)
TryFrom ==
    /\ probe.kind \in {"XText", "Line"}
    /\ IsNone(probe.back)
    /\ probe' = [probe EXCEPT !.back =
                    Some(IF probe.kind = "XText" THEN XText_try_from(probe.val)
                         ELSE Command_try_from(probe.val))]
    /\ Unused

\* tokens.next(), as long as fewer than two None have come back
TokensNext ==
    /\ probe.kind = "Tokens"
    /\ Cardinality({i \in 1..Len(probe.items) : IsNone(probe.items[i])}) < 2
    /\ Bind(Tokens_next(probe.bytes, probe.delim), LAMBDA t :
            probe' = [probe EXCEPT !.bytes = t.rest, !.items = Append(@, t.item)])
    /\ Unused

\* is_domain(&name), Domain::try_from(name)
IsDomain ==
    /\ probe.kind = "Domain"
    /\ IsNone(probe.valid)
    /\ probe' = [probe EXCEPT !.valid = Some(is_domain(probe.name)),
                              !.parsed = Some(Domain_try_from(probe.name))]
    /\ Unused

ValuesNext ==
    \/ Encode
    \/ Decode
    \/ TryFrom
    \/ TokensNext
    \/ IsDomain

SpecValues == ValuesInit /\ [][ValuesNext]_vars

\* ---------------------------------------------------------------------------
\* Properties of the value types
\* ---------------------------------------------------------------------------
Encoded == IsSome(probe.wire)
Decoded == Encoded /\ IsSome(probe.back)
Answered == IsSome(probe.back)

\* C24: a Domain and an Address literal are written as their bytes, an IPv4
\* address as "[" dotted quad "]", an IPv6 address as "[IPv6:" address "]",
\* and Host parsing accepts what was written as the same Host.
C24_HostRoundTrip ==
    (probe.kind = "Host" /\ Encoded) =>
        /\ CASE probe.host.tag = "Domain"  -> Unwrap(probe.wire) = probe.host.domain.domain
             [] probe.host.tag = "Address" -> Unwrap(probe.wire) = probe.host.address
             [] probe.host.tag = "Ip" ->
                   /\ StartsWith(Unwrap(probe.wire),
                                 IF probe.host.ip.v = 6 THEN <<91>> \o b_IPv6 \o <<58>>
                                 ELSE <<91>>)
                   /\ Unwrap(probe.wire)[Len(Unwrap(probe.wire))] = 93
        /\ Decoded => Unwrap(probe.back) = Ok(probe.host)

\* The value of the last parameter of the line that names the field, if any
LastOf(ps, name) ==
    LET S == {i \in 1..Len(ps) : ParamCases[ps[i]].name = name}
    IN  IF S = {} THEN None
        ELSE Some(ParamCases[ps[CHOOSE i \in S : \A j \in S : j <= i]].out.val)

\* The parameters of the line that do not parse
Failing(ps) == {i \in 1..Len(ps) : ~IsOk(ParamCases[ps[i]].out)}

IsMailLine == probe.kind = "Line" /\ probe.val = MailLine(probe.params)

\* C25: each field of the Mail is the value of the last parameter of the line
\* with that name, or absent if there is none, whatever the order of the
\* parameters; if a parameter fails, the command fails with the error of the
\* first parameter that fails.
C25_MailParametersLastWins ==
    (IsMailLine /\ Answered) =>
        IF Failing(probe.params) = {}
        THEN Unwrap(probe.back) =
                Ok([tag |-> "Mail",
                    mail |-> [from  |-> [tag |-> "Null"],
                              size  |-> LastOf(probe.params, "size"),
                              ret   |-> LastOf(probe.params, "ret"),
                              envid |-> LastOf(probe.params, "envid"),
                              auth  |-> LastOf(probe.params, "auth"),
                              body  |-> LastOf(probe.params, "body")]])
        ELSE Unwrap(probe.back) =
                Err(ParamCases[probe.params[MinOf(Failing(probe.params))]].out.err)

\* A line that names SIZE twice with different values, another parameter in
\* between, has been parsed into a Mail
C25_Witness ==
    /\ IsMailLine
    /\ Answered
    /\ IsOk(Unwrap(probe.back))
    /\ Len(probe.params) = 3
    /\ ParamCases[probe.params[1]].name = "size"
    /\ ParamCases[probe.params[2]].name = "body"
    /\ ParamCases[probe.params[3]].name = "size"
    /\ probe.params[1] # probe.params[3]

\* C26: for each of the eight sets of flags over DELAY, FAILURE, SUCCESS, the
\* value the serializer writes after "NOTIFY=" parses to the same set; the
\* empty set is written as NEVER, and NEVER parses to the empty set.
C26_NotifyRoundTrip ==
    /\ (probe.kind = "Notify" /\ Encoded) =>
          /\ StartsWith(Unwrap(probe.wire), b_NOTIFY \o <<61>>)
          /\ probe.flags = {} <=> Unwrap(probe.wire) = b_NOTIFY \o <<61>> \o b_NEVER
          /\ Decoded => Unwrap(probe.back) = Ok(probe.flags)
    /\ Notify_try_from(b_NEVER) = Ok({})

\* The set {DELAY, SUCCESS} has been written and parsed again
C26_Witness ==
    /\ probe.kind = "Notify"
    /\ probe.flags = {"DELAY", "SUCCESS"}
    /\ Decoded
    /\ Unwrap(probe.wire) = b_NOTIFY \o <<61>> \o b_DELAY \o <<44>> \o b_SUCCESS

\* The sixteen upper-case hex digits
UpperHex == <<48, 49, 50, 51, 52, 53, 54, 55, 56, 57, 65, 66, 67, 68, 69, 70>>

\* What RFC 3461 asks for one byte: an xchar ('!' to '~' but '+' and '=')
\* as it is, any other byte as '+' and two upper-case hex digits
AsXText(c) ==
    IF c >= 33 /\ c <= 126 /\ c # 43 /\ c # 61 THEN << c >>
    ELSE << 43, UpperHex[(c \div 16) + 1], UpperHex[(c % 16) + 1] >>

RECURSIVE AllAsXText(_)
AllAsXText(raw) ==
    IF Len(raw) = 0 THEN << >> ELSE AsXText(raw[1]) \o AllAsXText(DropFront(raw, 1))

\* C27: XText::encode leaves each xchar as it is and writes every other byte,
\* '+' included, as '+' and two upper-case hex digits; the result passes
\* XText validation, and decoding it gives the raw bytes back.
C27_XTextRoundTrip ==
    (probe.kind = "Raw" /\ Encoded) =>
        /\ Unwrap(probe.wire) = AllAsXText(probe.raw)
        /\ Decoded =>
              /\ Unwrap(probe.back).valid = Ok([xtext |-> Unwrap(probe.wire)])
              /\ Unwrap(probe.back).decoded = Ok(probe.raw)

\* Raw bytes that end in '+', with a byte that is no xchar and an xchar before
\* it, have been encoded, validated and decoded
C27_Witness ==
    /\ probe.kind = "Raw"
    /\ Decoded
    /\ probe.raw = <<255, 97, 43>>
    /\ Unwrap(probe.wire) = <<43, 70, 70, 97, 43, 50, 66>>

\* The bytes under study end in '+' and two hex digits
EndsInTriplet(x) ==
    /\ Len(x) >= 3
    /\ x[Len(x) - 2] = 43
    /\ is_ascii_hexdigit(x[Len(x) - 1])
    /\ is_ascii_hexdigit(x[Len(x)])

\* A '+' is the last byte or the last but one
EndsInCutTriplet(x) ==
    \/ Len(x) >= 1 /\ x[Len(x)] = 43
    \/ Len(x) >= 2 /\ x[Len(x) - 1] = 43

\* C28 as stated: an input whose last three bytes are '+' and two hex digits
\* is rejected with InvalidSyntax.
C28_TrailingTripletRejected ==
    (probe.kind = "XText" /\ Answered /\ EndsInTriplet(probe.val)) =>
        Unwrap(probe.back) = Err("InvalidSyntax")

\* C28: an input whose last three bytes are '+' and two hex digits is
\* accepted exactly if the bytes before them are; an input in which fewer
\* than two bytes follow a '+' is rejected with InvalidSyntax.
C28_TrailingTripletAccepted ==
    (probe.kind = "XText" /\ Answered) =>
        /\ EndsInTriplet(probe.val) =>
              IF IsOk(XText_try_from(TakeFront(probe.val, Len(probe.val) - 3)))
              THEN Unwrap(probe.back) = Ok([xtext |-> probe.val])
              ELSE Unwrap(probe.back) = Err("InvalidSyntax")
        /\ EndsInCutTriplet(probe.val) => Unwrap(probe.back) = Err("InvalidSyntax")

\* "g+2B", an xchar and then a triplet that ends the input, has been accepted
C28_Witness ==
    /\ probe.kind = "XText"
    /\ Answered
    /\ probe.val = <<103, 43, 50, 66>>
    /\ IsOk(Unwrap(probe.back))

\* The iterator has returned None
Exhausted ==
    probe.kind = "Tokens" /\ \E i \in 1..Len(probe.items) : IsNone(probe.items[i])

\* The tokens returned so far
Yielded == [i \in 1..Len(SelectSeq(probe.items, IsSome)) |->
               Unwrap(SelectSeq(probe.items, IsSome)[i])]

\* C29: an empty buffer yields nothing; otherwise the tokens are the fields
\* between the delimiters, empty ones for a leading delimiter, for two
\* delimiters in a row and for a delimiter that ends the buffer; after a None
\* only None comes back.
C29_TokensAreFields ==
    probe.kind = "Tokens" =>
        /\ Exhausted =>
              Yielded = IF Len(probe.val) = 0 THEN << >>
                        ELSE slice_split(probe.val, probe.delim)
        /\ \A i, j \in 1..Len(probe.items) :
              (i < j /\ IsNone(probe.items[i])) => IsNone(probe.items[j])

\* The first token of the line under study, as Command::try_from takes it
FirstToken == Unwrap(Tokens_next(probe.val, SP).item)

ImplementedVerbs == {b_HELO, b_EHLO, b_MAIL, b_RCPT, b_DATA, b_RSET, b_NOOP, b_QUIT, b_BDAT}

\* The line begins with VRFY, EXPN, HELP, AUTH or STARTTLS in any letter case
\* or with a token that is no verb of the table
IsReservedLine ==
    /\ probe.kind = "Line"
    /\ Len(probe.val) > 0
    /\ \A v \in ImplementedVerbs : ~eq_ignore_ascii_case(FirstToken, v)

\* C30: for a line whose first token is VRFY, EXPN, HELP, AUTH or STARTTLS in
\* any letter case, or is no verb of the table, Command::try_from returns the
\* error CommandNotImplemented.
C30_ReservedVerbsNotImplemented ==
    (IsReservedLine /\ Answered) => Unwrap(probe.back) = Err("CommandNotImplemented")

\* ---------------------------------------------------------------------------
\* Short command lines
\* ---------------------------------------------------------------------------
\* The last call looked for a command line and found a CRLF after `n` bytes
LineOfLength(n) ==
    /\ call.active
    /\ call.state0 = StCommand
    /\ Len(call.buf0) <= max
    /\ FirstCRLF = Some(n)

\* C31 as stated: in the Command state, a CRLF after fewer than two bytes of
\* command text (a line of zero bytes or of one byte) makes the call return
\* the error Empty.
C31_ShortLineIsEmpty ==
    (LineOfLength(0) \/ LineOfLength(1)) => call.ret = Err("Empty")

\* C31, amended: in the Command state, a CRLF after zero bytes of command text
\* makes the call return the error Empty; a CRLF after one byte makes it
\* return CommandNotImplemented, that byte (or the empty text before a space)
\* being a verb the parser does not know.
C31_EmptyLineIsEmpty ==
    /\ LineOfLength(0) => call.ret = Err("Empty")
    /\ LineOfLength(1) => call.ret = Err("CommandNotImplemented")

\* A CRLF at the very start of the buffer was answered with Empty.
C31_Witness ==
    /\ LineOfLength(0)
    /\ call.ret = Err("Empty")
    /\ buf = DropFront(call.buf0, 2)

\* ---------------------------------------------------------------------------
\* Arguments of BDAT, DATA, RSET, QUIT and NOOP
\* ---------------------------------------------------------------------------
\* The tokens of a command line: nothing for an empty line, otherwise the
\* fields between single spaces, an empty one after a space that ends the line
FieldsOf(line) == IF Len(line) = 0 THEN << >> ELSE slice_split(line, SP)

\* One or more decimal digits
IsDecimal(token) == Len(token) > 0 /\ \A i \in 1..Len(token) : is_ascii_digit(token[i])

\* The last call handed a line to the single-command parser whose first token
\* is one of `verbs` in any letter case
HandedLineOf(verbs) ==
    /\ call.active
    /\ call.state0 = StCommand
    /\ Len(call.buf0) <= max
    /\ Len(call.handed) = 1
    /\ Len(call.handed[1]) > 0
    /\ \E v \in verbs : eq_ignore_ascii_case(FieldsOf(call.handed[1])[1], v)

\* The call failed with error e, the parser having stayed in the Command state
FailedInCommandState(e) ==
    /\ call.ret = Err(e)
    /\ call.steps = 1
    /\ state = StCommand

\* The BDAT line has no size token
BdatNoSize(f) == Len(f) = 1
\* Its size token is no decimal unsigned integer
BdatBadSize(f) == Len(f) >= 2 /\ ~IsDecimal(f[2])
\* A size, then a token that is not LAST
BdatBadSecond(f) ==
    /\ Len(f) >= 3
    /\ IsDecimal(f[2]) /\ ~ExceedsUsize(f[2])
    /\ ~eq_ignore_ascii_case(f[3], b_LAST)
\* A size, LAST, then one more token at least
BdatSurplus(f) ==
    /\ Len(f) >= 4
    /\ IsDecimal(f[2]) /\ ~ExceedsUsize(f[2])
    /\ eq_ignore_ascii_case(f[3], b_LAST)

\* C32: a BDAT line with no size token fails with MissingParameter; one whose
\* size token is no decimal unsigned integer fails with InvalidSyntax; one whose
\* second token is not LAST (in any letter case) fails with
\* UnexpectedParameter, and so does one with a token after the size and LAST;
\* in none of these cases does the parser enter the Bdat state.
C32_BdatArguments ==
    HandedLineOf({b_BDAT}) =>
        Bind(FieldsOf(call.handed[1]), LAMBDA f :
             /\ BdatNoSize(f)    => FailedInCommandState("MissingParameter")
             /\ BdatBadSize(f)   => FailedInCommandState("InvalidSyntax")
             /\ BdatBadSecond(f) => FailedInCommandState("UnexpectedParameter")
             /\ BdatSurplus(f)   => FailedInCommandState("UnexpectedParameter"))

\* ---------------------------------------------------------------------------
\* Domain names
\* ---------------------------------------------------------------------------
\* A label of a domain name: letters, digits and '-', with no '-' at either end
IsLabel(l) ==
    /\ Len(l) > 0
    /\ l[1] # 45
    /\ l[Len(l)] # 45
    /\ \A i \in 1..Len(l) : is_ascii_alphanumeric(l[i]) \/ l[i] = 45

\* The labels of a name, the empty one after a single '.' that ends it left out
LabelsOf(name) ==
    Bind(slice_split(name, 46), LAMBDA ls :
         IF Len(ls) >= 2 /\ ls[Len(ls)] = << >> THEN TakeFront(ls, Len(ls) - 1) ELSE ls)

\* C33: a name is a domain exactly when it is one or more labels joined by
\* '.', with or without one '.' after the last label, whether there is one
\* label or several; two dots in a row and a label that begins or ends with
\* '-' make it invalid.
C33_DomainTrailingDot ==
    (probe.kind = "Domain" /\ IsSome(probe.valid)) =>
        /\ Unwrap(probe.valid) = (\A i \in 1..Len(LabelsOf(probe.name)) :
                                     IsLabel(LabelsOf(probe.name)[i]))
        /\ IsOk(Unwrap(probe.parsed)) = Unwrap(probe.valid)

\* ---------------------------------------------------------------------------
\* Over-long lines
\* ---------------------------------------------------------------------------
\* The last call, started in the Command state with a buffer within max,
\* returned TooLong without handing a line to the single-command parser
LongLineRefused ==
    /\ call.active
    /\ call.state0 = StCommand
    /\ Len(call.buf0) <= max
    /\ call.handed = << >>
    /\ IsTooLong(call.ret)

\* C34: when a call returns TooLong for an over-long command line, the CR of
\* that line was at an index pos > 510 and the call has discarded exactly the
\* first pos bytes: the buffer now begins with the line's CRLF, followed by
\* the bytes that came after it, and the state is still Command.
C34_LongLineDiscarded ==
    LongLineRefused =>
        /\ IsSome(FirstCRLF)
        /\ Unwrap(FirstCRLF) > 510
        /\ buf = DropFront(call.buf0, Unwrap(FirstCRLF))
        /\ TakeFront(buf, 2) = CRLF
        /\ state = StCommand

\* A line of 520 bytes was refused while the first byte of the next line was
\* already in the buffer; it is still there, after the CRLF.
C34_Witness ==
    /\ LongLineRefused
    /\ FirstCRLF = Some(520)
    /\ Len(buf) = 3
    /\ buf[3] = 78

\* A DATA line, a first body line of 999 bytes, a second line 'a', the
\* terminator, then NOOP
LongBodyThenNoop == w_DATA \o Filler(999) \o CRLF \o <<97>> \o CRLFDotCRLF \o w_NOOP

\* C35: when a call returns TooLong because a line of a DATA body is longer
\* than 998 bytes, the body up to the terminator and the 5 bytes of the
\* terminator have left the buffer, the bytes after the terminator are all
\* still there, and the state is Command; the command line after the
\* terminator is then parsed as usual.
C35_LongDataLineConsumesBody ==
    /\ (WentThroughData /\ IsTooLong(call.ret))
          => Bind(Finder_find(CRLFDotCRLF, DataBuf), LAMBDA f :
                  /\ IsSome(f)
                  /\ ~AllLinesWithin(TakeFront(DataBuf, Unwrap(f)))
                  /\ buf = DropFront(DataBuf, Unwrap(f) + 5)
                  /\ state = StCommand)
    /\ (/\ stream = LongBodyThenNoop
        /\ Len(stream) <= max
        /\ arrived = Len(stream)
        /\ call.active
        /\ IsNeedMore(call.ret)
        /\ buf = << >>)
          => Rets = << Err("TooLong"), Ok(Some([tag |-> "Noop"])) >>

\* The body with the 999-byte line was refused while the first byte of NOOP
\* was already behind the terminator, and NOOP has been returned since.
C35_Witness ==
    /\ stream = LongBodyThenNoop
    /\ Len(results) = 2
    /\ IsTooLong(results[1].ret)
    /\ results[1].to = Len(stream) - Len(w_NOOP)
    /\ results[2].ret = Ok(Some([tag |-> "Noop"]))
    /\ results[2].from = results[1].to

\* ---------------------------------------------------------------------------
\* BDAT payloads
\* ---------------------------------------------------------------------------
BdatOf(size, last, payload) ==
    Ok(Some([tag |-> "Bdat", bdat |-> [size |-> size, last |-> last, payload |-> payload]]))

\* The whole stream has arrived and fits in max, and the parser asks for more
StreamDone(s) ==
    /\ stream = s
    /\ Len(stream) <= max
    /\ arrived = Len(stream)
    /\ call.active
    /\ IsNeedMore(call.ret)

\* C36: a BDAT payload is framed by its length alone. A call that went through
\* the Bdat state waits only while fewer than size bytes are there, whatever
\* those bytes are; a returned chunk's payload is the size stream bytes after
\* its line's CRLF, CRLF and DATA terminators among them, and the result after
\* it is built from the very next byte; so BDAT 5, HELLO, BDAT 6 LAST, " WORLD"
\* with no CRLF between HELLO and BDAT gives the two chunks.
C36_BdatOpaque ==
    /\ (WentThroughBdat /\ IsNeedMore(call.ret)) => Len(BdatBuf) < state.size
    /\ \A i \in DOMAIN results :
          (IsCommandAt(i) /\ Unwrap(results[i].ret.val).tag = "Bdat")
              => Bind(Unwrap(results[i].ret.val).bdat, LAMBDA b :
                      /\ Len(b.payload) = b.size
                      /\ b.payload = SubSeq(stream, results[i].to - b.size + 1, results[i].to)
                      /\ i + 1 \in DOMAIN results => results[i + 1].from = results[i].to)
    /\ StreamDone(w_TwoChunks)
          => /\ Rets = << BdatOf(5, FALSE, <<72, 69, 76, 76, 79>>),
                          BdatOf(6, TRUE, <<32, 87, 79, 82, 76, 68>>) >>
             /\ buf = << >>
    /\ StreamDone(w_ChunkTerminator)
          => Rets = << BdatOf(5, FALSE, CRLFDotCRLF), Ok(Some([tag |-> "Noop"])) >>
    /\ StreamDone(w_ChunkQuit)
          => Rets = << BdatOf(6, FALSE, <<81, 85, 73, 84, 13, 10>>), Ok(Some([tag |-> "Rset"])) >>

\* HELLO came back as the first chunk and " WORLD" as the last one, the second
\* BDAT line having started right after the fifth payload byte.
C36_Witness ==
    /\ stream = w_TwoChunks
    /\ Len(results) = 2
    /\ results[1].ret = BdatOf(5, FALSE, <<72, 69, 76, 76, 79>>)
    /\ results[2].ret = BdatOf(6, TRUE, <<32, 87, 79, 82, 76, 68>>)
    /\ results[2].from = 13

\* C37: a DATA, RSET, QUIT or NOOP line with any token after the verb fails
\* with UnexpectedParameter and leaves the parser in the Command state; DATA x
\* does not start a body, and the NOOP line after it is returned as Noop.
C37_NoArgumentVerbs ==
    /\ (/\ HandedLineOf({b_DATA, b_RSET, b_QUIT, b_NOOP})
        /\ Len(FieldsOf(call.handed[1])) >= 2)
          => FailedInCommandState("UnexpectedParameter")
    /\ StreamDone(w_DATAx \o w_NOOP)
          => Rets = << Err("UnexpectedParameter"), Ok(Some([tag |-> "Noop"])) >>

\* ---------------------------------------------------------------------------
\* The parser state between calls
\* ---------------------------------------------------------------------------
\* What a step leaves behind: a step that is no call of parse leaves the state
\* alone; a call that returns leaves Data or Bdat only when it asks for more
\* bytes, Bdat only with size <= max and fewer than size bytes in the buffer,
\* Data only with no CRLF "." CRLF in the buffer
LeavesBodyStateOnlyWaiting ==
    /\ ~call'.active => state' = state
    /\ (call'.active /\ call'.ret.kind # "Panic")
          => /\ InBody(state') => IsNeedMore(call'.ret)
             /\ ~IsNeedMore(call'.ret) => state' = StCommand
             /\ state'.tag = "Bdat" => (state'.size <= max /\ Len(buf') < state'.size)
             /\ state' = StData => IsNone(Finder_find(CRLFDotCRLF, buf'))

\* C38: between calls the parser is in the Data or Bdat state only if the most
\* recent call returned need-more-bytes; every call that returns a command or
\* an error leaves the state Command; a call that returns in the Bdat state
\* leaves size <= max and fewer than size bytes in the buffer; a call that
\* returns in the Data state leaves no CRLF "." CRLF in the buffer.
C38_BodyStatesOnlyWhileWaiting == [][LeavesBodyStateOnlyWaiting]_vars

\* A call returned in the Bdat state with part of the payload in the buffer.
C38_Witness ==
    /\ call.active
    /\ IsNeedMore(call.ret)
    /\ state.tag = "Bdat"
    /\ state.size = 12
    /\ Len(buf) = 11

\* ---------------------------------------------------------------------------
\* Leaving the Data state
\* ---------------------------------------------------------------------------
\* A call that found the parser in the Data state, or put it there, and left
\* it in another one either found the buffer over max and cleared it, or
\* removed the bytes up to and including the first CRLF "." CRLF of the buffer
LeftDataAtTerminator ==
    /\ (call.active /\ call.state0 = StData /\ Len(call.buf0) > max)
          => /\ IsTooLong(call.ret)
             /\ buf = << >>
             /\ state = StCommand
    /\ (WentThroughData /\ state # StData)
          => LET f == Finder_find(<<13, 10, 46, 13, 10>>, DataBuf)
             IN  /\ IsSome(f)
                 /\ buf = DropFront(DataBuf, Unwrap(f) + 5)
                 /\ state = StCommand

\* The body begins with the line "." and no CRLF "." CRLF has arrived: the
\* call asks for more bytes and stays in the Data state, the bytes kept
EmptyBodyNotEnded ==
    (/\ WentThroughData
     /\ StartsWith(DataBuf, <<46, 13, 10>>)
     /\ IsNone(Finder_find(<<13, 10, 46, 13, 10>>, DataBuf)))
        => /\ IsNeedMore(call.ret)
           /\ state = StData
           /\ buf = DataBuf

\* DATA, ".", NOOP: nothing is returned; with one more "." line the body
\* returned is ".", CRLF, NOOP
EmptyBodyAbsorbsNoop ==
    /\ StreamDone(w_EmptyBody)
          => /\ results = << >>
             /\ state = StData
             /\ buf = w_DotLine \o w_NOOP
    /\ StreamDone(w_EmptyBodyEnded)
          => Rets = << Ok(Some([tag |-> "Data",
                                payload |-> <<46, 13, 10, 78, 79, 79, 80>>])) >>

\* C39: the parser leaves the Data state only by consuming the first CRLF "."
\* CRLF of the buffer, or through the whole-buffer reset; a body that begins
\* with the line "." right after the DATA line is not taken as ended: the calls
\* ask for more bytes and the later bytes become part of the body, until a
\* CRLF "." CRLF arrives or the buffer exceeds max.
C39_DataEndsOnlyAtTerminator ==
    /\ LeftDataAtTerminator
    /\ EmptyBodyNotEnded
    /\ EmptyBodyAbsorbsNoop

\* '.', CRLF, NOOP came back as the body of the DATA command whose body began
\* with the line ".".
C39_Witness ==
    /\ stream = w_EmptyBodyEnded
    /\ Len(results) = 1
    /\ results[1].ret = Ok(Some([tag |-> "Data", payload |-> <<46, 13, 10, 78, 79, 79, 80>>]))
    /\ results[1].from = 0
    /\ results[1].to = Len(stream)

\* ---------------------------------------------------------------------------
\* A long line whose CRLF has not arrived
\* ---------------------------------------------------------------------------
\* The last call found the parser in the Command state
CalledInCommandState == call.active /\ call.state0 = StCommand

\* C40: in the Command state the 510-byte ceiling is applied only once a CRLF
\* is in the buffer. A buffer of more than 510 bytes without CRLF, within max,
\* gives need-more-bytes and loses nothing, call after call; when the CRLF
\* arrives the call returns TooLong for the line; when the buffer grows beyond
\* max the call clears it and returns TooLong. Nothing is returned and nothing
\* consumed before one of the two happens.
C40_CeilingNeedsCRLF ==
    /\ (CalledInCommandState /\ Len(call.buf0) <= max /\ IsNone(FirstCRLF))
          => /\ IsNeedMore(call.ret)
             /\ buf = call.buf0
             /\ state = StCommand
    /\ (/\ CalledInCommandState
        /\ Len(call.buf0) <= max
        /\ IsSome(FirstCRLF)
        /\ Unwrap(FirstCRLF) > 510)
          => IsTooLong(call.ret) /\ call.handed = << >>
    /\ (CalledInCommandState /\ Len(call.buf0) > max)
          => IsTooLong(call.ret) /\ buf = << >> /\ state = StCommand
    /\ \A n \in {511, 520, 2050} :
          (/\ Len(stream) >= n + 2
           /\ arrived <= n + 1
           /\ arrived <= max
           /\ StartsWith(stream, Filler(n) \o CRLF))
              => results = << >> /\ off = 0 /\ buf = TakeFront(stream, arrived)

\* A call found 2048 bytes without CRLF in a buffer of max 2048 and asked for
\* more, the buffer untouched.
C40_Witness ==
    /\ CalledInCommandState
    /\ Len(call.buf0) = 2048
    /\ max = 2048
    /\ IsNone(FirstCRLF)
    /\ IsNeedMore(call.ret)
    /\ buf = call.buf0

=============================================================================
